---- MODULE Spec2Model ----
(***************************************************************************)
(* Model of models/resnet_50_V1.py: the two-tower ResNet-50 verification   *)
(* network (def_params, def_model) and its training loop (resnet.train):   *)
(* epochs x phases x files x windows, example synthesis, batching, the     *)
(* session runs and the per-epoch checkpoint.                              *)
(*                                                                         *)
(* Waveforms are run-length encoded: a waveform is a sequence of runs      *)
(* <<amplitude, count>>, amplitude in thousandths of full scale, so that   *)
(* slicing and the voice-activity gate are computed sample-exactly with    *)
(* WINDOW = 2400.  Tensor values produced by the external runtime          *)
(* (spectrogram values, gradients) are kept symbolic: a value is named by  *)
(* what it was computed from.                                              *)
(***************************************************************************)
EXTENDS Integers, Sequences, FiniteSets, TLC

(***************************************************************************)
(* Bounds of the model (not program constants).                            *)
(***************************************************************************)
MaxEpochs == 2
MaxBatch == 3
\* the largest height and width of an image the towers are applied to
MaxSide == 17
\* the windows of speech.wav: enough for more than 100 batches in one pass
SpeechWindows == 101

(***************************************************************************)
(* Program constants (lines 80-133).                                       *)
(***************************************************************************)
SAMPLERATE == 48000
\* WINDOW = int(0.05*48000)
WINDOW == (5 * SAMPLERATE) \div 100
\* NPERSEG = int(0.005/MS), NOVERLAP = int(0.003/MS), MS = 1.0/48000
NPERSEG == (5 * SAMPLERATE) \div 1000
NOVERLAP == (3 * SAMPLERATE) \div 1000
NFFT == NPERSEG
SIZE_FFT == 64
CeilDiv(a, b) == (a + b - 1) \div b
SIZE_COLS == CeilDiv(WINDOW - NPERSEG, NPERSEG - NOVERLAP)
\* VAD = 0.05, in thousandths of full scale
VAD == 50
\* amplitudes are integers in units of 1/AmpUnit
AmpUnit == 10 * 10 * 10

(***************************************************************************)
(* Run-length encoded waveforms and numpy slicing / addition on them.      *)
(***************************************************************************)
Abs(x) == IF x < 0 THEN -x ELSE x

RECURSIVE Len_(_)
Len_(w) == IF w = <<>> THEN 0 ELSE w[1][2] + Len_(Tail(w))

RECURSIVE SumAbs(_)
SumAbs(w) == IF w = <<>> THEN 0 ELSE Abs(w[1][1]) * w[1][2] + SumAbs(Tail(w))

RECURSIVE SumSq(_)
SumSq(w) == IF w = <<>> THEN 0 ELSE w[1][1] * w[1][1] * w[1][2] + SumSq(Tail(w))

RECURSIVE Drop(_, _)
Drop(w, n) ==
  IF w = <<>> \/ n <= 0 THEN w
  ELSE IF w[1][2] <= n THEN Drop(Tail(w), n - w[1][2])
  ELSE << <<w[1][1], w[1][2] - n>> >> \o Tail(w)

RECURSIVE Take(_, _)
Take(w, n) ==
  IF w = <<>> \/ n <= 0 THEN <<>>
  ELSE IF w[1][2] <= n THEN <<w[1]>> \o Take(Tail(w), n - w[1][2])
  ELSE << <<w[1][1], n>> >>

\* w[i:j] for 0 <= i <= j (the stop is clipped to the end as numpy does)
Slice(w, i, j) == Take(Drop(w, i), j - i)

\* adjacent runs of one amplitude are one run
RECURSIVE Canon(_)
Canon(w) ==
  IF Len(w) <= 1 THEN w
  ELSE IF w[1][1] = w[2][1]
       THEN Canon(<< <<w[1][1], w[1][2] + w[2][2]>> >> \o Tail(Tail(w)))
       ELSE <<w[1]>> \o Canon(Tail(w))

\* elementwise sum of two waveforms of equal length
RECURSIVE AddEq(_, _)
AddEq(a, b) ==
  IF a = <<>> \/ b = <<>> THEN <<>>
  ELSE LET n == IF a[1][2] <= b[1][2] THEN a[1][2] ELSE b[1][2]
       IN << <<a[1][1] + b[1][1], n>> >> \o AddEq(Drop(a, n), Drop(b, n))

\* a + b on numpy arrays: equal shapes, or one operand of length 1 is
\* broadcast; any other pair of shapes raises ValueError.
Broadcastable(a, b) == Len_(a) = Len_(b) \/ Len_(a) = 1 \/ Len_(b) = 1
Stretch(a, n) == IF Len_(a) = 1 /\ n # 1 THEN << <<a[1][1], n>> >> ELSE a
Add(a, b) == Canon(AddEq(Stretch(a, Len_(b)), Stretch(b, Len_(a))))

(***************************************************************************)
(* The corpus: what sf.read returns for each file, and what glob lists     *)
(* for each directory ('*.wav' first, then '*.flac', lines 1156-1159).     *)
(***************************************************************************)
RECURSIVE Repeat(_, _)
Repeat(w, n) == IF n <= 0 THEN <<>> ELSE w \o Repeat(w, n - 1)

\* one second holds SAMPLERATE samples, that is SAMPLERATE / WINDOW windows
WindowsPerSecond == SAMPLERATE \div WINDOW

Waveform(f) ==
  CASE f = "loud.wav"  -> << <<200, WINDOW>>, <<0, 2>> >>
    [] f = "quiet.wav" -> << <<10, WINDOW>>, <<0, 1>> >>
    [] f = "hum.wav"   -> << <<120, WINDOW>>, <<0, 1>> >>
    [] f = "hush.flac" -> << <<1, WINDOW + 2>> >>
    [] f = "talk.wav"  -> << <<200, WINDOW>>, <<1, WINDOW>>, <<-150, WINDOW>>, <<0, 1>> >>
    [] f = "tiny.wav"  -> << <<0, 100>> >>
    [] f = "clip.wav"  -> << <<200, WINDOW + 100>> >>
    [] f = "beep.wav"  -> << <<300, WINDOW>> >>
    \* one second each: every window of noise.wav has RMS 0.2, every window
    \* of silence.wav, murmur.wav and clicks.wav has RMS 0.01
    [] f = "noise.wav"   -> << <<200, SAMPLERATE>> >>
    [] f = "silence.wav" -> << <<10, SAMPLERATE>> >>
    [] f = "murmur.wav"  ->
         Repeat(<< <<10, WINDOW \div 2>>, <<-10, WINDOW \div 2>> >>, WindowsPerSecond)
    [] f = "clicks.wav"  ->
         Repeat(<< <<100, WINDOW \div 100>>, <<0, WINDOW - WINDOW \div 100>> >>,
                WindowsPerSecond)
    \* speech.wav is loud throughout, still.flac is silent and holds one
    \* window start, pop.wav ends with one loud sample after its one window
    [] f = "speech.wav" -> << <<200, SpeechWindows * WINDOW>> >>
    [] f = "still.flac" -> << <<1, WINDOW + 1>> >>
    [] f = "pop.wav"    -> << <<200, WINDOW + 1>> >>

Listing(dir) ==
  CASE dir = "DB_a"     -> <<"loud.wav", "quiet.wav">>
    [] dir = "DB_b"     -> <<"talk.wav", "hush.flac">>
    [] dir = "DB_c"     -> <<"loud.wav", "quiet.wav", "hum.wav">>
    [] dir = "DB_solo"  -> <<"loud.wav">>
    [] dir = "DB_tiny"  -> <<"loud.wav", "tiny.wav">>
    [] dir = "DB_clip"  -> <<"clip.wav", "hush.flac">>
    [] dir = "DB_beep"  -> <<"loud.wav", "beep.wav">>
    [] dir = "DB_empty" -> <<>>
    [] dir = "DB_second_a" -> <<"noise.wav", "silence.wav">>
    [] dir = "DB_second_b" -> <<"noise.wav", "murmur.wav">>
    [] dir = "DB_second_c" -> <<"noise.wav", "clicks.wav">>
    [] dir = "DB_long"   -> <<"speech.wav", "still.flac">>
    [] dir = "DB_silent" -> <<"tiny.wav", "still.flac">>
    [] dir = "DB_pop"    -> <<"pop.wav", "still.flac">>

\* the (train_dir, valid_dir, test_dir) settings explored
Settings ==
  { <<"DB_a", "DB_b", "DB_c">>,
    <<"DB_c", "DB_a", "DB_b">>,
    <<"DB_b", "DB_empty", "DB_a">>,
    <<"DB_solo", "DB_a", "DB_a">>,
    <<"DB_a", "DB_tiny", "DB_a">>,
    <<"DB_a", "DB_b", "DB_clip">>,
    <<"DB_beep", "DB_a", "DB_a">> }

(***************************************************************************)
(* Example synthesis helpers (lines 1184-1229).                            *)
(***************************************************************************)
\* np.sqrt(np.mean(np.abs(a1_alone))) > VAD, on integers:
\* mean|x| = SumAbs/(n*AmpUnit) and VAD = VAD/AmpUnit, squared on both sides
GateAlwaysOpen(w) == TRUE
GateOpen(w) == SumAbs(w) * AmpUnit > VAD * VAD * Len_(w)

\* random.randrange(0, n, 1): the values it can return; empty means ValueError
Randrange(n) == 0 .. (n - 1)

\* signal.spectrogram(w, ..., nperseg=NPERSEG, noverlap=NOVERLAP, nfft=NFFT,
\* return_onesided=False): scipy shortens nperseg to the input length and
\* raises when noverlap >= nperseg; the result has nfft rows and one column
\* per segment.
SegLen(w) == IF Len_(w) < NPERSEG THEN Len_(w) ELSE NPERSEG
SpectrogramOk(w) == NOVERLAP < SegLen(w)
SpectrogramCols(w) == (Len_(w) - NOVERLAP) \div (SegLen(w) - NOVERLAP)
Min(a, b) == IF a <= b THEN a ELSE b

\* np.reshape(Hxx[0:SIZE_FFT,:], (SIZE_FFT, SIZE_COLS, 1)) succeeds iff the
\* element counts agree
ReshapeOk(w) == Min(SIZE_FFT, NFFT) * SpectrogramCols(w) = SIZE_FFT * SIZE_COLS

FeaturesOk(w) == SpectrogramOk(w) /\ ReshapeOk(w)

\* the standardized spectrogram image of w; its values are symbolic
Features(w) == [shape |-> <<SIZE_FFT, SIZE_COLS, 1>>, of |-> w]

\* the operands <<X1 row, X2 row>> of the two examples of one anchor window:
\* lines 1198-1209 (a1_alone, a1_mix_a2) and lines 1215-1226 (a1_alone,
\* a2_alone)
PositiveOperands(a1, a2) == <<Features(a1), Features(Add(a1, a2))>>
NegativeOperandsOfMix(a1, a2) == <<Features(a1), Features(Add(a1, a2))>>
NegativeOperands(a1, a2) == <<Features(a1), Features(a2)>>

\* Y.append([0,1]) for the mixed example, Y.append([1,0]) for the distinct one
LabelPositive == <<0, 1>>
LabelNegativeSame == <<0, 1>>
LabelNegative == <<1, 0>>

\* if total >= FLAGS.batch_size: flag_model = True
ThresholdStrict(n, size) == n > size
Threshold(n, size) == n >= size

\* arr[permutation]
Index(arr, permutation) == [i \in 1 .. Len(permutation) |-> arr[permutation[i]]]
Permutations_(n) == {p \in [1 .. n -> 1 .. n] : \A i, j \in 1 .. n : p[i] = p[j] => i = j}
LabelsUnpermuted(arr, permutation) == arr
IndexLabels(arr, permutation) == Index(arr, permutation)

\* database[database[:] != chosen_audio_1]
OthersAndSelf(db, f) == db
Others(db, f) == SelectSeq(db, LAMBDA g : g # f)

WeightNames ==
  << "W_cn0", "W_b1_u1_cn0", "W_b1_u1_cn1", "W_b1_u1_cn2",
     "W_b1_u1_cn3", "W_b1_u2_cn1", "W_b1_u2_cn2", "W_b1_u2_cn3",
     "W_b1_u3_cn1", "W_b1_u3_cn2", "W_b1_u3_cn3", "W_b2_u1_cn0",
     "W_b2_u1_cn1", "W_b2_u1_cn2", "W_b2_u1_cn3", "W_b2_u2_cn1",
     "W_b2_u2_cn2", "W_b2_u2_cn3", "W_b2_u3_cn1", "W_b2_u3_cn2",
     "W_b2_u3_cn3", "W_b2_u4_cn1", "W_b2_u4_cn2", "W_b2_u4_cn3",
     "W_b3_u1_cn0", "W_b3_u1_cn1", "W_b3_u1_cn2", "W_b3_u1_cn3",
     "W_b3_u2_cn1", "W_b3_u2_cn2", "W_b3_u2_cn3", "W_b3_u3_cn1",
     "W_b3_u3_cn2", "W_b3_u3_cn3", "W_b3_u4_cn1", "W_b3_u4_cn2",
     "W_b3_u4_cn3", "W_b3_u5_cn1", "W_b3_u5_cn2", "W_b3_u5_cn3",
     "W_b3_u6_cn1", "W_b3_u6_cn2", "W_b3_u6_cn3", "W_b4_u1_cn0",
     "W_b4_u1_cn1", "W_b4_u1_cn2", "W_b4_u1_cn3", "W_b4_u2_cn1",
     "W_b4_u2_cn2", "W_b4_u2_cn3", "W_b4_u3_cn1", "W_b4_u3_cn2",
     "W_b4_u3_cn3", "W_fc1", "W_fc2" >>

(***************************************************************************)
(* The network (def_params, def_model).  Each tower is the sequence of its *)
(* convolutions, named by the key of self.weight each one reads; every     *)
(* convolution is followed by its own tf.layers.batch_normalization call,  *)
(* which creates that call's own variables (no name, no reuse): the        *)
(* calls of tower a are numbered first, then those of tower b.             *)
(***************************************************************************)
ConvA ==
  << "W_cn0", "W_b1_u1_cn0", "W_b1_u1_cn1", "W_b1_u1_cn2",
     "W_b1_u1_cn3", "W_b1_u2_cn1", "W_b1_u2_cn2", "W_b1_u2_cn3",
     "W_b1_u3_cn1", "W_b1_u3_cn2", "W_b1_u3_cn3", "W_b2_u1_cn0",
     "W_b2_u1_cn1", "W_b2_u1_cn2", "W_b2_u1_cn3", "W_b2_u2_cn1",
     "W_b2_u2_cn2", "W_b2_u2_cn3", "W_b2_u3_cn1", "W_b2_u3_cn2",
     "W_b2_u3_cn3", "W_b2_u4_cn1", "W_b2_u4_cn2", "W_b2_u4_cn3",
     "W_b3_u1_cn0", "W_b3_u1_cn1", "W_b3_u1_cn2", "W_b3_u1_cn3",
     "W_b3_u2_cn1", "W_b3_u2_cn2", "W_b3_u2_cn3", "W_b3_u3_cn1",
     "W_b3_u3_cn2", "W_b3_u3_cn3", "W_b3_u4_cn1", "W_b3_u4_cn2",
     "W_b3_u4_cn3", "W_b3_u5_cn1", "W_b3_u5_cn2", "W_b3_u5_cn3",
     "W_b3_u6_cn1", "W_b3_u6_cn2", "W_b3_u6_cn3", "W_b4_u1_cn0",
     "W_b4_u1_cn1", "W_b4_u1_cn2", "W_b4_u1_cn3", "W_b4_u2_cn1",
     "W_b4_u2_cn2", "W_b4_u2_cn3", "W_b4_u3_cn1", "W_b4_u3_cn2",
     "W_b4_u3_cn3" >>

\* tower b with one layer reading another tensor than tower a does
ConvBSwapped == [ConvA EXCEPT ![3] = "W_b1_u1_cn2"]
ConvB ==
  << "W_cn0", "W_b1_u1_cn0", "W_b1_u1_cn1", "W_b1_u1_cn2",
     "W_b1_u1_cn3", "W_b1_u2_cn1", "W_b1_u2_cn2", "W_b1_u2_cn3",
     "W_b1_u3_cn1", "W_b1_u3_cn2", "W_b1_u3_cn3", "W_b2_u1_cn0",
     "W_b2_u1_cn1", "W_b2_u1_cn2", "W_b2_u1_cn3", "W_b2_u2_cn1",
     "W_b2_u2_cn2", "W_b2_u2_cn3", "W_b2_u3_cn1", "W_b2_u3_cn2",
     "W_b2_u3_cn3", "W_b2_u4_cn1", "W_b2_u4_cn2", "W_b2_u4_cn3",
     "W_b3_u1_cn0", "W_b3_u1_cn1", "W_b3_u1_cn2", "W_b3_u1_cn3",
     "W_b3_u2_cn1", "W_b3_u2_cn2", "W_b3_u2_cn3", "W_b3_u3_cn1",
     "W_b3_u3_cn2", "W_b3_u3_cn3", "W_b3_u4_cn1", "W_b3_u4_cn2",
     "W_b3_u4_cn3", "W_b3_u5_cn1", "W_b3_u5_cn2", "W_b3_u5_cn3",
     "W_b3_u6_cn1", "W_b3_u6_cn2", "W_b3_u6_cn3", "W_b4_u1_cn0",
     "W_b4_u1_cn1", "W_b4_u1_cn2", "W_b4_u1_cn3", "W_b4_u2_cn1",
     "W_b4_u2_cn2", "W_b4_u2_cn3", "W_b4_u3_cn1", "W_b4_u3_cn2",
     "W_b4_u3_cn3" >>

NLayers == Len(ConvA)
Towers == {"a", "b"}
Conv(t) == IF t = "a" THEN ConvA ELSE ConvB
\* the batch_normalization call that follows convolution i of tower t
BNVar(t, i) == IF t = "a" THEN i - 1 ELSE Len(ConvA) + i - 1
BNVars == 0 .. (Len(ConvA) + Len(ConvB) - 1)

\* def_params: one tf.Variable per key, Xavier-initialised (distinct tensors)
InitWeight == [k \in {WeightNames[i] : i \in DOMAIN WeightNames} |-> [init |-> k, steps |-> 0]]
\* batch_normalization variables: gamma = 1, beta = 0, moving mean = 0,
\* moving variance = 1 in every call; the updates applied since are listed
InitBN == [v \in BNVars |-> [scale_shift |-> <<>>, moving |-> <<>>]]

\* GradientDescentOptimizer.minimize(self.loss): one update of every
\* trainable variable (kernels, dense matrices, every gamma and beta)
OptimizerStep(w) == [k \in DOMAIN w |-> [w[k] EXCEPT !.steps = @ + 1]]
\* the list of updates is run-length encoded, as the waveforms are
Push(list, v) ==
  IF list # <<>> /\ list[Len(list)][1] = v
  THEN [list EXCEPT ![Len(list)] = <<v, @[2] + 1>>]
  ELSE Append(list, <<v, 1>>)
ScaleShiftStep(b) == [v \in DOMAIN b |-> [b[v] EXCEPT !.scale_shift = Push(@, v)]]
\* extra_update_ops: each call folds the statistics of its own input into
\* its moving mean and variance; with training=False the update is a no-op
MovingStep(b) == [v \in DOMAIN b |-> [b[v] EXCEPT !.moving = Push(@, v)]]

\* the fetches of the three sess.run calls (lines 1259, 1281, 1301) and the
\* value fed for self.phase (lines 1257, 1280, 1300)
TrainFetches == {"optimizer", "loss", "accuracy", "summary", "extra_update_ops"}
ValidFetchesWithOptimizer == {"optimizer", "loss", "accuracy", "summary"}
ValidFetches == {"loss", "accuracy", "summary"}
TestFetchesWithOptimizer == {"optimizer", "loss", "accuracy", "summary"}
TestFetches == {"loss", "accuracy", "summary"}
TrainPhase == TRUE
ValidPhase == FALSE
TestPhase == FALSE

\* the variables after sess.run(fetches, feed_dict={..., self.phase: phase})
RunWeight(w, fetches) == IF "optimizer" \in fetches THEN OptimizerStep(w) ELSE w
RunBN(b, fetches, phase) ==
  LET b1 == IF "optimizer" \in fetches THEN ScaleShiftStep(b) ELSE b
  IN IF "extra_update_ops" \in fetches /\ phase THEN MovingStep(b1) ELSE b1

(***************************************************************************)
(* Shapes in the network.  def_params gives every kernel its shape         *)
(* [filter_height, filter_width, in_channels, out_channels]; def_model is  *)
(* a list of assignments, kept here in the order of the source as          *)
(* <<operation, name assigned, first argument, kernel key or second        *)
(* argument>>.  Shapes are [height, width, channels], the batch dimension  *)
(* is left out.                                                            *)
(***************************************************************************)
KernelShape ==
  [
    W_cn0 |-> <<7, 7, 1, 64>>, W_b1_u1_cn0 |-> <<1, 1, 64, 256>>,
    W_b1_u1_cn1 |-> <<1, 1, 64, 64>>, W_b1_u1_cn2 |-> <<3, 3, 64, 64>>,
    W_b1_u1_cn3 |-> <<1, 1, 64, 256>>, W_b1_u2_cn1 |-> <<1, 1, 256, 64>>,
    W_b1_u2_cn2 |-> <<3, 3, 64, 64>>, W_b1_u2_cn3 |-> <<1, 1, 64, 256>>,
    W_b1_u3_cn1 |-> <<1, 1, 256, 64>>, W_b1_u3_cn2 |-> <<3, 3, 64, 64>>,
    W_b1_u3_cn3 |-> <<1, 1, 64, 256>>, W_b2_u1_cn0 |-> <<1, 1, 256, 512>>,
    W_b2_u1_cn1 |-> <<1, 1, 256, 128>>, W_b2_u1_cn2 |-> <<3, 3, 128, 128>>,
    W_b2_u1_cn3 |-> <<1, 1, 128, 512>>, W_b2_u2_cn1 |-> <<1, 1, 512, 128>>,
    W_b2_u2_cn2 |-> <<3, 3, 128, 128>>, W_b2_u2_cn3 |-> <<1, 1, 128, 512>>,
    W_b2_u3_cn1 |-> <<1, 1, 512, 128>>, W_b2_u3_cn2 |-> <<3, 3, 128, 128>>,
    W_b2_u3_cn3 |-> <<1, 1, 128, 512>>, W_b2_u4_cn1 |-> <<1, 1, 512, 128>>,
    W_b2_u4_cn2 |-> <<3, 3, 128, 128>>, W_b2_u4_cn3 |-> <<1, 1, 128, 512>>,
    W_b3_u1_cn0 |-> <<1, 1, 512, 1024>>, W_b3_u1_cn1 |-> <<1, 1, 512, 256>>,
    W_b3_u1_cn2 |-> <<3, 3, 256, 256>>, W_b3_u1_cn3 |-> <<1, 1, 256, 1024>>,
    W_b3_u2_cn1 |-> <<1, 1, 1024, 256>>, W_b3_u2_cn2 |-> <<3, 3, 256, 256>>,
    W_b3_u2_cn3 |-> <<1, 1, 256, 1024>>, W_b3_u3_cn1 |-> <<1, 1, 1024, 256>>,
    W_b3_u3_cn2 |-> <<3, 3, 256, 256>>, W_b3_u3_cn3 |-> <<1, 1, 256, 1024>>,
    W_b3_u4_cn1 |-> <<1, 1, 1024, 256>>, W_b3_u4_cn2 |-> <<3, 3, 256, 256>>,
    W_b3_u4_cn3 |-> <<1, 1, 256, 1024>>, W_b3_u5_cn1 |-> <<1, 1, 1024, 256>>,
    W_b3_u5_cn2 |-> <<3, 3, 256, 256>>, W_b3_u5_cn3 |-> <<1, 1, 256, 1024>>,
    W_b3_u6_cn1 |-> <<1, 1, 1024, 256>>, W_b3_u6_cn2 |-> <<3, 3, 256, 256>>,
    W_b3_u6_cn3 |-> <<1, 1, 256, 1024>>,
    W_b4_u1_cn0 |-> <<1, 1, 1024, 2048>>,
    W_b4_u1_cn1 |-> <<1, 1, 1024, 512>>, W_b4_u1_cn2 |-> <<3, 3, 512, 512>>,
    W_b4_u1_cn3 |-> <<1, 1, 512, 2048>>, W_b4_u2_cn1 |-> <<1, 1, 2048, 512>>,
    W_b4_u2_cn2 |-> <<3, 3, 512, 512>>, W_b4_u2_cn3 |-> <<1, 1, 512, 2048>>,
    W_b4_u3_cn1 |-> <<1, 1, 2048, 512>>, W_b4_u3_cn2 |-> <<3, 3, 512, 512>>,
    W_b4_u3_cn3 |-> <<1, 1, 512, 2048>>
  ]

\* strides of conv2d, conv2ds2, max_pool_2x2, avg_pool_2x2 (lines 164-179)
StridesAllTwo(fn) == 2
Strides(fn) ==
  CASE fn = "conv2d" -> 1
    [] fn = "conv2ds2" -> 2
    [] fn = "max_pool_2x2" -> 2
    [] fn = "avg_pool_2x2" -> 2

OpsA ==
  <<
     <<"conv2ds2", "h_cn0a", "X1", "W_cn0">>,
     <<"batch_normalization", "h_cn0a", "h_cn0a", "-">>,
     <<"relu", "h_cn0a", "h_cn0a", "-">>,
     <<"max_pool_2x2", "h_pool1a", "h_cn0a", "-">>,
     <<"conv2d", "shortcut_b1a", "h_pool1a", "W_b1_u1_cn0">>,
     <<"batch_normalization", "shortcut_b1a", "shortcut_b1a", "-">>,
     <<"conv2d", "h_b1_u1_cn1a", "h_pool1a", "W_b1_u1_cn1">>,
     <<"batch_normalization", "h_b1_u1_cn1a", "h_b1_u1_cn1a", "-">>,
     <<"relu", "h_b1_u1_cn1a", "h_b1_u1_cn1a", "-">>,
     <<"conv2d", "h_b1_u1_cn2a", "h_b1_u1_cn1a", "W_b1_u1_cn2">>,
     <<"batch_normalization", "h_b1_u1_cn2a", "h_b1_u1_cn2a", "-">>,
     <<"relu", "h_b1_u1_cn2a", "h_b1_u1_cn2a", "-">>,
     <<"conv2d", "h_b1_u1_cn3a", "h_b1_u1_cn2a", "W_b1_u1_cn3">>,
     <<"batch_normalization", "h_b1_u1_cn3a", "h_b1_u1_cn3a", "-">>,
     <<"add", "h_b1_u1_cn3a", "h_b1_u1_cn3a", "shortcut_b1a">>,
     <<"relu", "h_b1_u1_cn3a", "h_b1_u1_cn3a", "-">>,
     <<"conv2d", "h_b1_u2_cn1a", "h_b1_u1_cn3a", "W_b1_u2_cn1">>,
     <<"batch_normalization", "h_b1_u2_cn1a", "h_b1_u2_cn1a", "-">>,
     <<"relu", "h_b1_u2_cn1a", "h_b1_u2_cn1a", "-">>,
     <<"conv2d", "h_b1_u2_cn2a", "h_b1_u2_cn1a", "W_b1_u2_cn2">>,
     <<"batch_normalization", "h_b1_u2_cn2a", "h_b1_u2_cn2a", "-">>,
     <<"relu", "h_b1_u2_cn2a", "h_b1_u2_cn2a", "-">>,
     <<"conv2d", "h_b1_u2_cn3a", "h_b1_u2_cn2a", "W_b1_u2_cn3">>,
     <<"batch_normalization", "h_b1_u2_cn3a", "h_b1_u2_cn3a", "-">>,
     <<"add", "h_b1_u2_cn3a", "h_b1_u2_cn3a", "h_b1_u1_cn3a">>,
     <<"relu", "h_b1_u2_cn3a", "h_b1_u2_cn3a", "-">>,
     <<"conv2d", "h_b1_u3_cn1a", "h_b1_u2_cn3a", "W_b1_u3_cn1">>,
     <<"batch_normalization", "h_b1_u3_cn1a", "h_b1_u3_cn1a", "-">>,
     <<"relu", "h_b1_u3_cn1a", "h_b1_u3_cn1a", "-">>,
     <<"conv2d", "h_b1_u3_cn2a", "h_b1_u3_cn1a", "W_b1_u3_cn2">>,
     <<"batch_normalization", "h_b1_u3_cn2a", "h_b1_u3_cn2a", "-">>,
     <<"relu", "h_b1_u3_cn2a", "h_b1_u3_cn2a", "-">>,
     <<"conv2d", "h_b1_u3_cn3a", "h_b1_u3_cn2a", "W_b1_u3_cn3">>,
     <<"batch_normalization", "h_b1_u3_cn3a", "h_b1_u3_cn3a", "-">>,
     <<"add", "h_b1_u3_cn3a", "h_b1_u3_cn3a", "h_b1_u2_cn3a">>,
     <<"relu", "h_b1_u3_cn3a", "h_b1_u3_cn3a", "-">>,
     <<"conv2d", "shortcut_b2a", "h_b1_u3_cn3a", "W_b2_u1_cn0">>,
     <<"batch_normalization", "shortcut_b2a", "shortcut_b2a", "-">>,
     <<"conv2d", "h_b2_u1_cn1a", "h_b1_u3_cn3a", "W_b2_u1_cn1">>,
     <<"batch_normalization", "h_b2_u1_cn1a", "h_b2_u1_cn1a", "-">>,
     <<"relu", "h_b2_u1_cn1a", "h_b2_u1_cn1a", "-">>,
     <<"conv2d", "h_b2_u1_cn2a", "h_b2_u1_cn1a", "W_b2_u1_cn2">>,
     <<"batch_normalization", "h_b2_u1_cn2a", "h_b2_u1_cn2a", "-">>,
     <<"relu", "h_b2_u1_cn2a", "h_b2_u1_cn2a", "-">>,
     <<"conv2d", "h_b2_u1_cn3a", "h_b2_u1_cn2a", "W_b2_u1_cn3">>,
     <<"batch_normalization", "h_b2_u1_cn3a", "h_b2_u1_cn3a", "-">>,
     <<"add", "h_b2_u1_cn3a", "h_b2_u1_cn3a", "shortcut_b2a">>,
     <<"relu", "h_b2_u1_cn3a", "h_b2_u1_cn3a", "-">>,
     <<"conv2d", "h_b2_u2_cn1a", "h_b2_u1_cn3a", "W_b2_u2_cn1">>,
     <<"batch_normalization", "h_b2_u2_cn1a", "h_b2_u2_cn1a", "-">>,
     <<"relu", "h_b2_u2_cn1a", "h_b2_u2_cn1a", "-">>,
     <<"conv2d", "h_b2_u2_cn2a", "h_b2_u2_cn1a", "W_b2_u2_cn2">>,
     <<"batch_normalization", "h_b2_u2_cn2a", "h_b2_u2_cn2a", "-">>,
     <<"relu", "h_b2_u2_cn2a", "h_b2_u2_cn2a", "-">>,
     <<"conv2d", "h_b2_u2_cn3a", "h_b2_u2_cn2a", "W_b2_u2_cn3">>,
     <<"batch_normalization", "h_b2_u2_cn3a", "h_b2_u2_cn3a", "-">>,
     <<"add", "h_b2_u2_cn3a", "h_b2_u2_cn3a", "h_b2_u1_cn3a">>,
     <<"relu", "h_b2_u2_cn3a", "h_b2_u2_cn3a", "-">>,
     <<"conv2d", "h_b2_u3_cn1a", "h_b2_u2_cn3a", "W_b2_u3_cn1">>,
     <<"batch_normalization", "h_b2_u3_cn1a", "h_b2_u3_cn1a", "-">>,
     <<"relu", "h_b2_u3_cn1a", "h_b2_u3_cn1a", "-">>,
     <<"conv2d", "h_b2_u3_cn2a", "h_b2_u3_cn1a", "W_b2_u3_cn2">>,
     <<"batch_normalization", "h_b2_u3_cn2a", "h_b2_u3_cn2a", "-">>,
     <<"relu", "h_b2_u3_cn2a", "h_b2_u3_cn2a", "-">>,
     <<"conv2d", "h_b2_u3_cn3a", "h_b2_u3_cn2a", "W_b2_u3_cn3">>,
     <<"batch_normalization", "h_b2_u3_cn3a", "h_b2_u3_cn3a", "-">>,
     <<"add", "h_b2_u3_cn3a", "h_b2_u3_cn3a", "h_b2_u2_cn3a">>,
     <<"relu", "h_b2_u3_cn3a", "h_b2_u3_cn3a", "-">>,
     <<"conv2d", "h_b2_u4_cn1a", "h_b2_u3_cn3a", "W_b2_u4_cn1">>,
     <<"batch_normalization", "h_b2_u4_cn1a", "h_b2_u4_cn1a", "-">>,
     <<"relu", "h_b2_u4_cn1a", "h_b2_u4_cn1a", "-">>,
     <<"conv2d", "h_b2_u4_cn2a", "h_b2_u4_cn1a", "W_b2_u4_cn2">>,
     <<"batch_normalization", "h_b2_u4_cn2a", "h_b2_u4_cn2a", "-">>,
     <<"relu", "h_b2_u4_cn2a", "h_b2_u4_cn2a", "-">>,
     <<"conv2d", "h_b2_u4_cn3a", "h_b2_u4_cn2a", "W_b2_u4_cn3">>,
     <<"batch_normalization", "h_b2_u4_cn3a", "h_b2_u4_cn3a", "-">>,
     <<"add", "h_b2_u4_cn3a", "h_b2_u4_cn3a", "h_b2_u3_cn3a">>,
     <<"relu", "h_b2_u4_cn3a", "h_b2_u4_cn3a", "-">>,
     <<"conv2d", "shortcut_b3a", "h_b2_u4_cn3a", "W_b3_u1_cn0">>,
     <<"batch_normalization", "shortcut_b3a", "shortcut_b3a", "-">>,
     <<"conv2d", "h_b3_u1_cn1a", "h_b2_u4_cn3a", "W_b3_u1_cn1">>,
     <<"batch_normalization", "h_b3_u1_cn1a", "h_b3_u1_cn1a", "-">>,
     <<"relu", "h_b3_u1_cn1a", "h_b3_u1_cn1a", "-">>,
     <<"conv2d", "h_b3_u1_cn2a", "h_b3_u1_cn1a", "W_b3_u1_cn2">>,
     <<"batch_normalization", "h_b3_u1_cn2a", "h_b3_u1_cn2a", "-">>,
     <<"relu", "h_b3_u1_cn2a", "h_b3_u1_cn2a", "-">>,
     <<"conv2d", "h_b3_u1_cn3a", "h_b3_u1_cn2a", "W_b3_u1_cn3">>,
     <<"batch_normalization", "h_b3_u1_cn3a", "h_b3_u1_cn3a", "-">>,
     <<"add", "h_b3_u1_cn3a", "h_b3_u1_cn3a", "shortcut_b3a">>,
     <<"relu", "h_b3_u1_cn3a", "h_b3_u1_cn3a", "-">>,
     <<"conv2d", "h_b3_u2_cn1a", "h_b3_u1_cn3a", "W_b3_u2_cn1">>,
     <<"batch_normalization", "h_b3_u2_cn1a", "h_b3_u2_cn1a", "-">>,
     <<"relu", "h_b3_u2_cn1a", "h_b3_u2_cn1a", "-">>,
     <<"conv2d", "h_b3_u2_cn2a", "h_b3_u2_cn1a", "W_b3_u2_cn2">>,
     <<"batch_normalization", "h_b3_u2_cn2a", "h_b3_u2_cn2a", "-">>,
     <<"relu", "h_b3_u2_cn2a", "h_b3_u2_cn2a", "-">>,
     <<"conv2d", "h_b3_u2_cn3a", "h_b3_u2_cn2a", "W_b3_u2_cn3">>,
     <<"batch_normalization", "h_b3_u2_cn3a", "h_b3_u2_cn3a", "-">>,
     <<"add", "h_b3_u2_cn3a", "h_b3_u2_cn3a", "h_b3_u1_cn3a">>,
     <<"relu", "h_b3_u2_cn3a", "h_b3_u2_cn3a", "-">>,
     <<"conv2d", "h_b3_u3_cn1a", "h_b3_u2_cn3a", "W_b3_u3_cn1">>,
     <<"batch_normalization", "h_b3_u3_cn1a", "h_b3_u3_cn1a", "-">>,
     <<"relu", "h_b3_u3_cn1a", "h_b3_u3_cn1a", "-">>,
     <<"conv2d", "h_b3_u3_cn2a", "h_b3_u3_cn1a", "W_b3_u3_cn2">>,
     <<"batch_normalization", "h_b3_u3_cn2a", "h_b3_u3_cn2a", "-">>,
     <<"relu", "h_b3_u3_cn2a", "h_b3_u3_cn2a", "-">>,
     <<"conv2d", "h_b3_u3_cn3a", "h_b3_u3_cn2a", "W_b3_u3_cn3">>,
     <<"batch_normalization", "h_b3_u3_cn3a", "h_b3_u3_cn3a", "-">>,
     <<"add", "h_b3_u3_cn3a", "h_b3_u3_cn3a", "h_b3_u2_cn3a">>,
     <<"relu", "h_b3_u3_cn3a", "h_b3_u3_cn3a", "-">>,
     <<"conv2d", "h_b3_u4_cn1a", "h_b3_u3_cn3a", "W_b3_u4_cn1">>,
     <<"batch_normalization", "h_b3_u4_cn1a", "h_b3_u4_cn1a", "-">>,
     <<"relu", "h_b3_u4_cn1a", "h_b3_u4_cn1a", "-">>,
     <<"conv2d", "h_b3_u4_cn2a", "h_b3_u4_cn1a", "W_b3_u4_cn2">>,
     <<"batch_normalization", "h_b3_u4_cn2a", "h_b3_u4_cn2a", "-">>,
     <<"relu", "h_b3_u4_cn2a", "h_b3_u4_cn2a", "-">>,
     <<"conv2d", "h_b3_u4_cn3a", "h_b3_u4_cn2a", "W_b3_u4_cn3">>,
     <<"batch_normalization", "h_b3_u4_cn3a", "h_b3_u4_cn3a", "-">>,
     <<"add", "h_b3_u4_cn3a", "h_b3_u4_cn3a", "h_b3_u3_cn3a">>,
     <<"relu", "h_b3_u4_cn3a", "h_b3_u4_cn3a", "-">>,
     <<"conv2d", "h_b3_u5_cn1a", "h_b3_u4_cn3a", "W_b3_u5_cn1">>,
     <<"batch_normalization", "h_b3_u5_cn1a", "h_b3_u5_cn1a", "-">>,
     <<"relu", "h_b3_u5_cn1a", "h_b3_u5_cn1a", "-">>,
     <<"conv2d", "h_b3_u5_cn2a", "h_b3_u5_cn1a", "W_b3_u5_cn2">>,
     <<"batch_normalization", "h_b3_u5_cn2a", "h_b3_u5_cn2a", "-">>,
     <<"relu", "h_b3_u5_cn2a", "h_b3_u5_cn2a", "-">>,
     <<"conv2d", "h_b3_u5_cn3a", "h_b3_u5_cn2a", "W_b3_u5_cn3">>,
     <<"batch_normalization", "h_b3_u5_cn3a", "h_b3_u5_cn3a", "-">>,
     <<"add", "h_b3_u5_cn3a", "h_b3_u5_cn3a", "h_b3_u4_cn3a">>,
     <<"relu", "h_b3_u5_cn3a", "h_b3_u5_cn3a", "-">>,
     <<"conv2d", "h_b3_u6_cn1a", "h_b3_u5_cn3a", "W_b3_u6_cn1">>,
     <<"batch_normalization", "h_b3_u6_cn1a", "h_b3_u6_cn1a", "-">>,
     <<"relu", "h_b3_u6_cn1a", "h_b3_u6_cn1a", "-">>,
     <<"conv2d", "h_b3_u6_cn2a", "h_b3_u6_cn1a", "W_b3_u6_cn2">>,
     <<"batch_normalization", "h_b3_u6_cn2a", "h_b3_u6_cn2a", "-">>,
     <<"relu", "h_b3_u6_cn2a", "h_b3_u6_cn2a", "-">>,
     <<"conv2d", "h_b3_u6_cn3a", "h_b3_u6_cn2a", "W_b3_u6_cn3">>,
     <<"batch_normalization", "h_b3_u6_cn3a", "h_b3_u6_cn3a", "-">>,
     <<"add", "h_b3_u6_cn3a", "h_b3_u6_cn3a", "h_b3_u5_cn3a">>,
     <<"relu", "h_b3_u6_cn3a", "h_b3_u6_cn3a", "-">>,
     <<"conv2d", "shortcut_b4a", "h_b3_u6_cn3a", "W_b4_u1_cn0">>,
     <<"batch_normalization", "shortcut_b4a", "shortcut_b4a", "-">>,
     <<"conv2d", "h_b4_u1_cn1a", "h_b3_u6_cn3a", "W_b4_u1_cn1">>,
     <<"batch_normalization", "h_b4_u1_cn1a", "h_b4_u1_cn1a", "-">>,
     <<"relu", "h_b4_u1_cn1a", "h_b4_u1_cn1a", "-">>,
     <<"conv2d", "h_b4_u1_cn2a", "h_b4_u1_cn1a", "W_b4_u1_cn2">>,
     <<"batch_normalization", "h_b4_u1_cn2a", "h_b4_u1_cn2a", "-">>,
     <<"relu", "h_b4_u1_cn2a", "h_b4_u1_cn2a", "-">>,
     <<"conv2d", "h_b4_u1_cn3a", "h_b4_u1_cn2a", "W_b4_u1_cn3">>,
     <<"batch_normalization", "h_b4_u1_cn3a", "h_b4_u1_cn3a", "-">>,
     <<"add", "h_b4_u1_cn3a", "h_b4_u1_cn3a", "shortcut_b4a">>,
     <<"relu", "h_b4_u1_cn3a", "h_b4_u1_cn3a", "-">>,
     <<"conv2d", "h_b4_u2_cn1a", "h_b4_u1_cn3a", "W_b4_u2_cn1">>,
     <<"batch_normalization", "h_b4_u2_cn1a", "h_b4_u2_cn1a", "-">>,
     <<"relu", "h_b4_u2_cn1a", "h_b4_u2_cn1a", "-">>,
     <<"conv2d", "h_b4_u2_cn2a", "h_b4_u2_cn1a", "W_b4_u2_cn2">>,
     <<"batch_normalization", "h_b4_u2_cn2a", "h_b4_u2_cn2a", "-">>,
     <<"relu", "h_b4_u2_cn2a", "h_b4_u2_cn2a", "-">>,
     <<"conv2d", "h_b4_u2_cn3a", "h_b4_u2_cn2a", "W_b4_u2_cn3">>,
     <<"batch_normalization", "h_b4_u2_cn3a", "h_b4_u2_cn3a", "-">>,
     <<"add", "h_b4_u2_cn3a", "h_b4_u2_cn3a", "h_b4_u1_cn3a">>,
     <<"relu", "h_b4_u2_cn3a", "h_b4_u2_cn3a", "-">>,
     <<"conv2d", "h_b4_u3_cn1a", "h_b4_u2_cn3a", "W_b4_u3_cn1">>,
     <<"batch_normalization", "h_b4_u3_cn1a", "h_b4_u3_cn1a", "-">>,
     <<"relu", "h_b4_u3_cn1a", "h_b4_u3_cn1a", "-">>,
     <<"conv2d", "h_b4_u3_cn2a", "h_b4_u3_cn1a", "W_b4_u3_cn2">>,
     <<"batch_normalization", "h_b4_u3_cn2a", "h_b4_u3_cn2a", "-">>,
     <<"relu", "h_b4_u3_cn2a", "h_b4_u3_cn2a", "-">>,
     <<"conv2d", "h_b4_u3_cn3a", "h_b4_u3_cn2a", "W_b4_u3_cn3">>,
     <<"batch_normalization", "h_b4_u3_cn3a", "h_b4_u3_cn3a", "-">>,
     <<"add", "h_b4_u3_cn3a", "h_b4_u3_cn3a", "h_b4_u2_cn3a">>,
     <<"relu", "h_b4_u3_cn3a", "h_b4_u3_cn3a", "-">>,
     <<"avg_pool_2x2", "h_pool2a", "h_b4_u3_cn3a", "-">>
  >>

OpsB ==
  <<
     <<"conv2ds2", "h_cn0b", "X2", "W_cn0">>,
     <<"batch_normalization", "h_cn0b", "h_cn0b", "-">>,
     <<"relu", "h_cn0b", "h_cn0b", "-">>,
     <<"max_pool_2x2", "h_pool1b", "h_cn0b", "-">>,
     <<"conv2d", "shortcut_b1b", "h_pool1b", "W_b1_u1_cn0">>,
     <<"batch_normalization", "shortcut_b1b", "shortcut_b1b", "-">>,
     <<"conv2d", "h_b1_u1_cn1b", "h_pool1b", "W_b1_u1_cn1">>,
     <<"batch_normalization", "h_b1_u1_cn1b", "h_b1_u1_cn1b", "-">>,
     <<"relu", "h_b1_u1_cn1b", "h_b1_u1_cn1b", "-">>,
     <<"conv2d", "h_b1_u1_cn2b", "h_b1_u1_cn1b", "W_b1_u1_cn2">>,
     <<"batch_normalization", "h_b1_u1_cn2b", "h_b1_u1_cn2b", "-">>,
     <<"relu", "h_b1_u1_cn2b", "h_b1_u1_cn2b", "-">>,
     <<"conv2d", "h_b1_u1_cn3b", "h_b1_u1_cn2b", "W_b1_u1_cn3">>,
     <<"batch_normalization", "h_b1_u1_cn3b", "h_b1_u1_cn3b", "-">>,
     <<"add", "h_b1_u1_cn3b", "h_b1_u1_cn3b", "shortcut_b1b">>,
     <<"relu", "h_b1_u1_cn3b", "h_b1_u1_cn3b", "-">>,
     <<"conv2d", "h_b1_u2_cn1b", "h_b1_u1_cn3b", "W_b1_u2_cn1">>,
     <<"batch_normalization", "h_b1_u2_cn1b", "h_b1_u2_cn1b", "-">>,
     <<"relu", "h_b1_u2_cn1b", "h_b1_u2_cn1b", "-">>,
     <<"conv2d", "h_b1_u2_cn2b", "h_b1_u2_cn1b", "W_b1_u2_cn2">>,
     <<"batch_normalization", "h_b1_u2_cn2b", "h_b1_u2_cn2b", "-">>,
     <<"relu", "h_b1_u2_cn2b", "h_b1_u2_cn2b", "-">>,
     <<"conv2d", "h_b1_u2_cn3b", "h_b1_u2_cn2b", "W_b1_u2_cn3">>,
     <<"batch_normalization", "h_b1_u2_cn3b", "h_b1_u2_cn3b", "-">>,
     <<"add", "h_b1_u2_cn3b", "h_b1_u2_cn3b", "h_b1_u1_cn3b">>,
     <<"relu", "h_b1_u2_cn3b", "h_b1_u2_cn3b", "-">>,
     <<"conv2d", "h_b1_u3_cn1b", "h_b1_u2_cn3b", "W_b1_u3_cn1">>,
     <<"batch_normalization", "h_b1_u3_cn1b", "h_b1_u3_cn1b", "-">>,
     <<"relu", "h_b1_u3_cn1b", "h_b1_u3_cn1b", "-">>,
     <<"conv2d", "h_b1_u3_cn2b", "h_b1_u3_cn1b", "W_b1_u3_cn2">>,
     <<"batch_normalization", "h_b1_u3_cn2b", "h_b1_u3_cn2b", "-">>,
     <<"relu", "h_b1_u3_cn2b", "h_b1_u3_cn2b", "-">>,
     <<"conv2d", "h_b1_u3_cn3b", "h_b1_u3_cn2b", "W_b1_u3_cn3">>,
     <<"batch_normalization", "h_b1_u3_cn3b", "h_b1_u3_cn3b", "-">>,
     <<"add", "h_b1_u3_cn3b", "h_b1_u3_cn3b", "h_b1_u2_cn3b">>,
     <<"relu", "h_b1_u3_cn3b", "h_b1_u3_cn3b", "-">>,
     <<"conv2d", "shortcut_b2b", "h_b1_u3_cn3b", "W_b2_u1_cn0">>,
     <<"batch_normalization", "shortcut_b2b", "shortcut_b2b", "-">>,
     <<"conv2d", "h_b2_u1_cn1b", "h_b1_u3_cn3b", "W_b2_u1_cn1">>,
     <<"batch_normalization", "h_b2_u1_cn1b", "h_b2_u1_cn1b", "-">>,
     <<"relu", "h_b2_u1_cn1b", "h_b2_u1_cn1b", "-">>,
     <<"conv2d", "h_b2_u1_cn2b", "h_b2_u1_cn1b", "W_b2_u1_cn2">>,
     <<"batch_normalization", "h_b2_u1_cn2b", "h_b2_u1_cn2b", "-">>,
     <<"relu", "h_b2_u1_cn2b", "h_b2_u1_cn2b", "-">>,
     <<"conv2d", "h_b2_u1_cn3b", "h_b2_u1_cn2b", "W_b2_u1_cn3">>,
     <<"batch_normalization", "h_b2_u1_cn3b", "h_b2_u1_cn3b", "-">>,
     <<"add", "h_b2_u1_cn3b", "h_b2_u1_cn3b", "shortcut_b2b">>,
     <<"relu", "h_b2_u1_cn3b", "h_b2_u1_cn3b", "-">>,
     <<"conv2d", "h_b2_u2_cn1b", "h_b2_u1_cn3b", "W_b2_u2_cn1">>,
     <<"batch_normalization", "h_b2_u2_cn1b", "h_b2_u2_cn1b", "-">>,
     <<"relu", "h_b2_u2_cn1b", "h_b2_u2_cn1b", "-">>,
     <<"conv2d", "h_b2_u2_cn2b", "h_b2_u2_cn1b", "W_b2_u2_cn2">>,
     <<"batch_normalization", "h_b2_u2_cn2b", "h_b2_u2_cn2b", "-">>,
     <<"relu", "h_b2_u2_cn2b", "h_b2_u2_cn2b", "-">>,
     <<"conv2d", "h_b2_u2_cn3b", "h_b2_u2_cn2b", "W_b2_u2_cn3">>,
     <<"batch_normalization", "h_b2_u2_cn3b", "h_b2_u2_cn3b", "-">>,
     <<"add", "h_b2_u2_cn3b", "h_b2_u2_cn3b", "h_b2_u1_cn3b">>,
     <<"relu", "h_b2_u2_cn3b", "h_b2_u2_cn3b", "-">>,
     <<"conv2d", "h_b2_u3_cn1b", "h_b2_u2_cn3b", "W_b2_u3_cn1">>,
     <<"batch_normalization", "h_b2_u3_cn1b", "h_b2_u3_cn1b", "-">>,
     <<"relu", "h_b2_u3_cn1b", "h_b2_u3_cn1b", "-">>,
     <<"conv2d", "h_b2_u3_cn2b", "h_b2_u3_cn1b", "W_b2_u3_cn2">>,
     <<"batch_normalization", "h_b2_u3_cn2b", "h_b2_u3_cn2b", "-">>,
     <<"relu", "h_b2_u3_cn2b", "h_b2_u3_cn2b", "-">>,
     <<"conv2d", "h_b2_u3_cn3b", "h_b2_u3_cn2b", "W_b2_u3_cn3">>,
     <<"batch_normalization", "h_b2_u3_cn3b", "h_b2_u3_cn3b", "-">>,
     <<"add", "h_b2_u3_cn3b", "h_b2_u3_cn3b", "h_b2_u2_cn3b">>,
     <<"relu", "h_b2_u3_cn3b", "h_b2_u3_cn3b", "-">>,
     <<"conv2d", "h_b2_u4_cn1b", "h_b2_u3_cn3b", "W_b2_u4_cn1">>,
     <<"batch_normalization", "h_b2_u4_cn1b", "h_b2_u4_cn1b", "-">>,
     <<"relu", "h_b2_u4_cn1b", "h_b2_u4_cn1b", "-">>,
     <<"conv2d", "h_b2_u4_cn2b", "h_b2_u4_cn1b", "W_b2_u4_cn2">>,
     <<"batch_normalization", "h_b2_u4_cn2b", "h_b2_u4_cn2b", "-">>,
     <<"relu", "h_b2_u4_cn2b", "h_b2_u4_cn2b", "-">>,
     <<"conv2d", "h_b2_u4_cn3b", "h_b2_u4_cn2b", "W_b2_u4_cn3">>,
     <<"batch_normalization", "h_b2_u4_cn3b", "h_b2_u4_cn3b", "-">>,
     <<"add", "h_b2_u4_cn3b", "h_b2_u4_cn3b", "h_b2_u3_cn3b">>,
     <<"relu", "h_b2_u4_cn3b", "h_b2_u4_cn3b", "-">>,
     <<"conv2d", "shortcut_b3b", "h_b2_u4_cn3b", "W_b3_u1_cn0">>,
     <<"batch_normalization", "shortcut_b3b", "shortcut_b3b", "-">>,
     <<"conv2d", "h_b3_u1_cn1b", "h_b2_u4_cn3b", "W_b3_u1_cn1">>,
     <<"batch_normalization", "h_b3_u1_cn1b", "h_b3_u1_cn1b", "-">>,
     <<"relu", "h_b3_u1_cn1b", "h_b3_u1_cn1b", "-">>,
     <<"conv2d", "h_b3_u1_cn2b", "h_b3_u1_cn1b", "W_b3_u1_cn2">>,
     <<"batch_normalization", "h_b3_u1_cn2b", "h_b3_u1_cn2b", "-">>,
     <<"relu", "h_b3_u1_cn2b", "h_b3_u1_cn2b", "-">>,
     <<"conv2d", "h_b3_u1_cn3b", "h_b3_u1_cn2b", "W_b3_u1_cn3">>,
     <<"batch_normalization", "h_b3_u1_cn3b", "h_b3_u1_cn3b", "-">>,
     <<"add", "h_b3_u1_cn3b", "h_b3_u1_cn3b", "shortcut_b3b">>,
     <<"relu", "h_b3_u1_cn3b", "h_b3_u1_cn3b", "-">>,
     <<"conv2d", "h_b3_u2_cn1b", "h_b3_u1_cn3b", "W_b3_u2_cn1">>,
     <<"batch_normalization", "h_b3_u2_cn1b", "h_b3_u2_cn1b", "-">>,
     <<"relu", "h_b3_u2_cn1b", "h_b3_u2_cn1b", "-">>,
     <<"conv2d", "h_b3_u2_cn2b", "h_b3_u2_cn1b", "W_b3_u2_cn2">>,
     <<"batch_normalization", "h_b3_u2_cn2b", "h_b3_u2_cn2b", "-">>,
     <<"relu", "h_b3_u2_cn2b", "h_b3_u2_cn2b", "-">>,
     <<"conv2d", "h_b3_u2_cn3b", "h_b3_u2_cn2b", "W_b3_u2_cn3">>,
     <<"batch_normalization", "h_b3_u2_cn3b", "h_b3_u2_cn3b", "-">>,
     <<"add", "h_b3_u2_cn3b", "h_b3_u2_cn3b", "h_b3_u1_cn3b">>,
     <<"relu", "h_b3_u2_cn3b", "h_b3_u2_cn3b", "-">>,
     <<"conv2d", "h_b3_u3_cn1b", "h_b3_u2_cn3b", "W_b3_u3_cn1">>,
     <<"batch_normalization", "h_b3_u3_cn1b", "h_b3_u3_cn1b", "-">>,
     <<"relu", "h_b3_u3_cn1b", "h_b3_u3_cn1b", "-">>,
     <<"conv2d", "h_b3_u3_cn2b", "h_b3_u3_cn1b", "W_b3_u3_cn2">>,
     <<"batch_normalization", "h_b3_u3_cn2b", "h_b3_u3_cn2b", "-">>,
     <<"relu", "h_b3_u3_cn2b", "h_b3_u3_cn2b", "-">>,
     <<"conv2d", "h_b3_u3_cn3b", "h_b3_u3_cn2b", "W_b3_u3_cn3">>,
     <<"batch_normalization", "h_b3_u3_cn3b", "h_b3_u3_cn3b", "-">>,
     <<"add", "h_b3_u3_cn3b", "h_b3_u3_cn3b", "h_b3_u2_cn3b">>,
     <<"relu", "h_b3_u3_cn3b", "h_b3_u3_cn3b", "-">>,
     <<"conv2d", "h_b3_u4_cn1b", "h_b3_u3_cn3b", "W_b3_u4_cn1">>,
     <<"batch_normalization", "h_b3_u4_cn1b", "h_b3_u4_cn1b", "-">>,
     <<"relu", "h_b3_u4_cn1b", "h_b3_u4_cn1b", "-">>,
     <<"conv2d", "h_b3_u4_cn2b", "h_b3_u4_cn1b", "W_b3_u4_cn2">>,
     <<"batch_normalization", "h_b3_u4_cn2b", "h_b3_u4_cn2b", "-">>,
     <<"relu", "h_b3_u4_cn2b", "h_b3_u4_cn2b", "-">>,
     <<"conv2d", "h_b3_u4_cn3b", "h_b3_u4_cn2b", "W_b3_u4_cn3">>,
     <<"batch_normalization", "h_b3_u4_cn3b", "h_b3_u4_cn3b", "-">>,
     <<"add", "h_b3_u4_cn3b", "h_b3_u4_cn3b", "h_b3_u3_cn3b">>,
     <<"relu", "h_b3_u4_cn3b", "h_b3_u4_cn3b", "-">>,
     <<"conv2d", "h_b3_u5_cn1b", "h_b3_u4_cn3b", "W_b3_u5_cn1">>,
     <<"batch_normalization", "h_b3_u5_cn1b", "h_b3_u5_cn1b", "-">>,
     <<"relu", "h_b3_u5_cn1b", "h_b3_u5_cn1b", "-">>,
     <<"conv2d", "h_b3_u5_cn2b", "h_b3_u5_cn1b", "W_b3_u5_cn2">>,
     <<"batch_normalization", "h_b3_u5_cn2b", "h_b3_u5_cn2b", "-">>,
     <<"relu", "h_b3_u5_cn2b", "h_b3_u5_cn2b", "-">>,
     <<"conv2d", "h_b3_u5_cn3b", "h_b3_u5_cn2b", "W_b3_u5_cn3">>,
     <<"batch_normalization", "h_b3_u5_cn3b", "h_b3_u5_cn3b", "-">>,
     <<"add", "h_b3_u5_cn3b", "h_b3_u5_cn3b", "h_b3_u4_cn3b">>,
     <<"relu", "h_b3_u5_cn3b", "h_b3_u5_cn3b", "-">>,
     <<"conv2d", "h_b3_u6_cn1b", "h_b3_u5_cn3b", "W_b3_u6_cn1">>,
     <<"batch_normalization", "h_b3_u6_cn1b", "h_b3_u6_cn1b", "-">>,
     <<"relu", "h_b3_u6_cn1b", "h_b3_u6_cn1b", "-">>,
     <<"conv2d", "h_b3_u6_cn2b", "h_b3_u6_cn1b", "W_b3_u6_cn2">>,
     <<"batch_normalization", "h_b3_u6_cn2b", "h_b3_u6_cn2b", "-">>,
     <<"relu", "h_b3_u6_cn2b", "h_b3_u6_cn2b", "-">>,
     <<"conv2d", "h_b3_u6_cn3b", "h_b3_u6_cn2b", "W_b3_u6_cn3">>,
     <<"batch_normalization", "h_b3_u6_cn3b", "h_b3_u6_cn3b", "-">>,
     <<"add", "h_b3_u6_cn3b", "h_b3_u6_cn3b", "h_b3_u5_cn3b">>,
     <<"relu", "h_b3_u6_cn3b", "h_b3_u6_cn3b", "-">>,
     <<"conv2d", "shortcut_b4b", "h_b3_u6_cn3b", "W_b4_u1_cn0">>,
     <<"batch_normalization", "shortcut_b4b", "shortcut_b4b", "-">>,
     <<"conv2d", "h_b4_u1_cn1b", "h_b3_u6_cn3b", "W_b4_u1_cn1">>,
     <<"batch_normalization", "h_b4_u1_cn1b", "h_b4_u1_cn1b", "-">>,
     <<"relu", "h_b4_u1_cn1b", "h_b4_u1_cn1b", "-">>,
     <<"conv2d", "h_b4_u1_cn2b", "h_b4_u1_cn1b", "W_b4_u1_cn2">>,
     <<"batch_normalization", "h_b4_u1_cn2b", "h_b4_u1_cn2b", "-">>,
     <<"relu", "h_b4_u1_cn2b", "h_b4_u1_cn2b", "-">>,
     <<"conv2d", "h_b4_u1_cn3b", "h_b4_u1_cn2b", "W_b4_u1_cn3">>,
     <<"batch_normalization", "h_b4_u1_cn3b", "h_b4_u1_cn3b", "-">>,
     <<"add", "h_b4_u1_cn3b", "h_b4_u1_cn3b", "shortcut_b4b">>,
     <<"relu", "h_b4_u1_cn3b", "h_b4_u1_cn3b", "-">>,
     <<"conv2d", "h_b4_u2_cn1b", "h_b4_u1_cn3b", "W_b4_u2_cn1">>,
     <<"batch_normalization", "h_b4_u2_cn1b", "h_b4_u2_cn1b", "-">>,
     <<"relu", "h_b4_u2_cn1b", "h_b4_u2_cn1b", "-">>,
     <<"conv2d", "h_b4_u2_cn2b", "h_b4_u2_cn1b", "W_b4_u2_cn2">>,
     <<"batch_normalization", "h_b4_u2_cn2b", "h_b4_u2_cn2b", "-">>,
     <<"relu", "h_b4_u2_cn2b", "h_b4_u2_cn2b", "-">>,
     <<"conv2d", "h_b4_u2_cn3b", "h_b4_u2_cn2b", "W_b4_u2_cn3">>,
     <<"batch_normalization", "h_b4_u2_cn3b", "h_b4_u2_cn3b", "-">>,
     <<"add", "h_b4_u2_cn3b", "h_b4_u2_cn3b", "h_b4_u1_cn3b">>,
     <<"relu", "h_b4_u2_cn3b", "h_b4_u2_cn3b", "-">>,
     <<"conv2d", "h_b4_u3_cn1b", "h_b4_u2_cn3b", "W_b4_u3_cn1">>,
     <<"batch_normalization", "h_b4_u3_cn1b", "h_b4_u3_cn1b", "-">>,
     <<"relu", "h_b4_u3_cn1b", "h_b4_u3_cn1b", "-">>,
     <<"conv2d", "h_b4_u3_cn2b", "h_b4_u3_cn1b", "W_b4_u3_cn2">>,
     <<"batch_normalization", "h_b4_u3_cn2b", "h_b4_u3_cn2b", "-">>,
     <<"relu", "h_b4_u3_cn2b", "h_b4_u3_cn2b", "-">>,
     <<"conv2d", "h_b4_u3_cn3b", "h_b4_u3_cn2b", "W_b4_u3_cn3">>,
     <<"batch_normalization", "h_b4_u3_cn3b", "h_b4_u3_cn3b", "-">>,
     <<"add", "h_b4_u3_cn3b", "h_b4_u3_cn3b", "h_b4_u2_cn3b">>,
     <<"relu", "h_b4_u3_cn3b", "h_b4_u3_cn3b", "-">>,
     <<"avg_pool_2x2", "h_pool2b", "h_b4_u3_cn3b", "-">>
  >>

Ops(t) == IF t = "a" THEN OpsA ELSE OpsB
\* the placeholder each tower starts from: self.X1 for a, self.X2 for b
Input(t) == IF t = "a" THEN "X1" ELSE "X2"

\* tf.placeholder(tf.float32, [None, IN_HEIGHT, IN_WIDTH, CHANNELS])
CHANNELS == 1
InputShape == <<SIZE_FFT, SIZE_COLS, CHANNELS>>

IsConv(fn) == fn \in {"conv2d", "conv2ds2"}
IsPool(fn) == fn \in {"max_pool_2x2", "avg_pool_2x2"}

\* padding='SAME': the output size is ceil(size / stride)
SameFloor(n, s) == n \div s
Same(n, s) == CeilDiv(n, s)

\* the tensor operation number id of a tower yields from its first
\* argument x: a convolution gives the out_channels of its kernel, a pool
\* keeps the channels, batch_normalization, relu and add keep the shape
Yield(op, x, id) ==
  [id |-> id,
   shape |->
     IF IsConv(op[1])
     THEN <<Same(x.shape[1], Strides(op[1])), Same(x.shape[2], Strides(op[1])),
            KernelShape[op[4]][4]>>
     ELSE IF IsPool(op[1])
     THEN <<Same(x.shape[1], Strides(op[1])), Same(x.shape[2], Strides(op[1])),
            x.shape[3]>>
     ELSE x.shape]

\* the assignment that made the tensor a name stands for when operation
\* i reads it: the last one before i that assigned the name, 0 when the
\* name is the tower's placeholder
Producer(ops, i, name) ==
  LET before == {j \in 1 .. (i - 1) : ops[j][2] = name}
  IN IF before = {} THEN 0
     ELSE CHOOSE j \in before : \A k \in before : k <= j

\* operation i applied after the operations before it (done): the
\* tensors it reads (x, and y for add) and the tensor it yields
ApplyOp(ops, done, input, i) ==
  LET op == ops[i]
      Read(name) ==
        IF Producer(ops, i, name) = 0 THEN input
        ELSE done[Producer(ops, i, name)].out
      x == Read(op[3])
  IN [fn |-> op[1], key |-> op[4], x |-> x,
      y |-> IF op[1] = "add" THEN Read(op[4]) ELSE x,
      out |-> Yield(op, x, i)]

\* the operations of a tower applied in the order of the source, until n
\* of them are done
RECURSIVE Applied(_, _, _, _)
Applied(ops, done, input, n) ==
  IF Len(done) >= n THEN done
  ELSE Applied(ops, Append(done, ApplyOp(ops, done, input, Len(done) + 1)), input, n)

\* all of them, a stretch at a time (this keeps the evaluation shallow)
Stretch_(ops, done) == Min(Len(ops), Len(done) + NLayers)
RECURSIVE AppliedAll(_, _, _)
AppliedAll(ops, done, input) ==
  IF Len(done) >= Len(ops) THEN done
  ELSE AppliedAll(ops, Applied(ops, done, input, Stretch_(ops, done)), input)

TowerShapes(t, shape) == AppliedAll(Ops(t), <<>>, [id |-> 0, shape |-> shape])

\* ksize of the two pools (lines 170-179), rows and columns
KSize(fn) ==
  CASE fn = "max_pool_2x2" -> <<2, 2>>
    [] fn = "avg_pool_2x2" -> <<7, 7>>

\* lines 118-133
L_LABEL == 2
IN_HEIGHT == SIZE_FFT
IN_WIDTH == SIZE_COLS
POOL_LAYERS == 3
WIDTH_AFTER_CONV == CeilDiv(IN_WIDTH, 2 ^ POOL_LAYERS)
HEIGHT_AFTER_CONV == CeilDiv(IN_HEIGHT, 2 ^ POOL_LAYERS)

\* the shapes of the two dense matrices (lines 330-333)
DenseShape ==
  [W_fc1 |-> <<2 * 2048 * WIDTH_AFTER_CONV * HEIGHT_AFTER_CONV, 2048>>,
   W_fc2 |-> <<2048, L_LABEL>>]

\* tf.concat([h_pool2a, h_pool2b], axis=3): the channels of the two tower
\* outputs side by side (the heights and widths must agree)
Concat(a, b) == <<a[1], a[2], a[3] + b[3]>>
ConcatOk(a, b) == a[1] = b[1] /\ a[2] = b[2]
\* the number of values of one example in h_concat
FlatLengthOf(shape) == shape[1] * shape[2] * shape[3]
\* tf.reshape(h_concat, [-1, 2 * 2048 * HEIGHT_AFTER_CONV * WIDTH_AFTER_CONV])
FlatWidth == 2 * 2048 * HEIGHT_AFTER_CONV * WIDTH_AFTER_CONV

(***************************************************************************)
(* State of resnet.train.                                                  *)
(***************************************************************************)
VARIABLES
  FLAGS,            \* num_epochs, batch_size, train_dir, valid_dir, test_dir
  predictor,        \* how the network of this run predicts (see Correct)
  pc,               \* position in the nested loops of train
  n_epochs, k_limit, step_file,
  database, audio,
  chosen_audio_1, audio_1, list_dif, index_a1,
  chosen_audio_2, index_a2,
  X1, X2, Y, total, flag_model,
  X1_array, X2_array, Y_array,
  step_train, step_valid, step_test,
  acc_train, acc_valid, acc_test,
  weight, bn,       \* self.weight and the batch-normalization variables
  saved,            \* the saver.save calls so far
  summaries,        \* the add_summary calls so far
  output_file,      \* the lines written to <file_path>_results.txt
  console,          \* the lines printed
  path,             \* the directory of the current phase pass
  origin,           \* for each pending example, the directory it was cut from
  history,          \* the operations of the run so far, in order
  n_pos, n_neg, n_fed,  \* examples emitted / fed in the current phase pass
  n_dropped,        \* examples that were pending when a phase pass began
  files_read,       \* the anchor files read so far in the current phase pass
  error             \* the exception that ended the run, if any

config == <<FLAGS, predictor>>
loop == <<n_epochs, k_limit, step_file, path, database, audio>>
anchor == <<chosen_audio_1, audio_1, list_dif, index_a1>>
second == <<chosen_audio_2, index_a2>>
pending == <<X1, X2, Y, total, flag_model, origin>>
arrays == <<X1_array, X2_array, Y_array>>
steps == <<step_train, step_valid, step_test>>
accs == <<acc_train, acc_valid, acc_test>>
params == <<weight, bn>>
logs == <<summaries, output_file, console>>
counts == <<n_pos, n_neg, n_fed, n_dropped>>
vars == <<config, pc, loop, anchor, second, pending, arrays, steps, accs,
          params, saved, logs, history, counts, files_read, error>>

\* what a tower computes from an input in inference mode is determined by
\* the input and by every variable the tower reads
TowerOut(t, x) ==
  [input |-> x,
   kernel |-> [i \in 1 .. NLayers |-> weight[Conv(t)[i]]],
   norm |-> [i \in 1 .. NLayers |-> bn[BNVar(t, i)]]]

None == "-"

\* self.accuracy, the number of rows of the batch whose arg-max prediction
\* equals the label, is computed by the runtime; the runs explored are those
\* of a network that is always wrong and of one that is always right.
Predictors == {"none", "all"}
Correct(n) == IF predictor = "all" THEN n ELSE 0

\* The state when the epoch loop is reached (lines 1121-1128): the model
\* is constructed, the variables initialised, counters at their start.
Init ==
  /\ \E s \in Settings, n \in 1 .. MaxEpochs, b \in 1 .. MaxBatch :
       FLAGS = [num_epochs |-> n, batch_size |-> b,
                train_dir |-> s[1], valid_dir |-> s[2], test_dir |-> s[3]]
  /\ predictor \in Predictors
  /\ pc = "epoch"
  /\ n_epochs = 0 /\ k_limit = 0 /\ step_file = 0 /\ path = None
  /\ database = <<>> /\ audio = 0
  /\ chosen_audio_1 = None /\ audio_1 = <<>> /\ list_dif = <<>> /\ index_a1 = 0
  /\ chosen_audio_2 = None /\ index_a2 = 0
  /\ X1 = <<>> /\ X2 = <<>> /\ Y = <<>> /\ total = 0 /\ flag_model = FALSE
  /\ origin = <<>>
  /\ X1_array = <<>> /\ X2_array = <<>> /\ Y_array = <<>>
  /\ step_train = 1 /\ step_valid = 1 /\ step_test = 1
  /\ acc_train = 0 /\ acc_valid = 0 /\ acc_test = 0
  /\ weight = InitWeight /\ bn = InitBN
  /\ saved = <<>>
  /\ summaries = <<>> /\ output_file = <<>> /\ console = <<>>
  /\ history = <<>>
  /\ n_pos = 0 /\ n_neg = 0 /\ n_fed = 0 /\ n_dropped = 0
  /\ files_read = <<>>
  /\ error = None

(***************************************************************************)
(* The loops of resnet.train (lines 1131-1326).                            *)
(***************************************************************************)
\* lines 1135-1138: test data is swept in the last epoch only
KLimitAlwaysTest(n, num) == 3
KLimit(n, num) == IF n = num - 1 THEN 3 ELSE 2

\* lines 1146-1153
PathAlwaysTrain(k) == FLAGS.train_dir
Path(k) ==
  IF k = 0 THEN FLAGS.train_dir
  ELSE IF k = 1 THEN FLAGS.valid_dir
  ELSE FLAGS.test_dir

\* lines 1168-1175: the lists and the count a phase pass starts with
PendingKept(p) == p
PendingAtPassStart(p) == [X1 |-> <<>>, X2 |-> <<>>, Y |-> <<>>, total |-> 0]

\* line 1326: the checkpoint of an epoch is named by the epoch index
CheckpointNameFixed(n) == 0
CheckpointName(n) == n

\* line 1323: audio += 1
NextAudioSkip(a) == a + 2
NextAudio(a) == a + 1

a1_alone == Slice(audio_1, index_a1, index_a1 + WINDOW)

\* for n_epochs in range(FLAGS.num_epochs): one more epoch
BeginEpoch ==
  /\ pc = "epoch"
  /\ n_epochs < FLAGS.num_epochs
  /\ k_limit' = KLimit(n_epochs, FLAGS.num_epochs)
  /\ step_file' = 0
  /\ pc' = "phase"
  /\ UNCHANGED <<config, files_read, n_epochs, path, database, audio, anchor,
                 second, pending,
                 arrays, steps, accs, params, saved, logs, history, counts, error>>

\* range(FLAGS.num_epochs) is exhausted: train returns
Finish ==
  /\ pc = "epoch"
  /\ n_epochs >= FLAGS.num_epochs
  /\ pc' = "done"
  /\ UNCHANGED <<config, files_read, loop, anchor, second, pending, arrays,
                 steps, accs,
                 params, saved, logs, history, counts, error>>

\* lines 1143-1175: one more phase pass: list and permute the directory,
\* start with empty lists
BeginPhase ==
  /\ pc = "phase"
  /\ step_file < k_limit
  /\ path' = Path(step_file)
  /\ LET listed == Listing(Path(step_file))
         start == PendingAtPassStart([X1 |-> X1, X2 |-> X2, Y |-> Y, total |-> total])
     IN /\ \E permutation_d \in Permutations_(Len(listed)) :
             database' = Index(listed, permutation_d)
        /\ X1' = start.X1 /\ X2' = start.X2 /\ Y' = start.Y
        /\ total' = start.total
        /\ origin' = IF start.X1 = <<>> THEN <<>> ELSE origin
  /\ audio' = 0
  /\ flag_model' = FALSE
  /\ n_pos' = 0 /\ n_neg' = 0 /\ n_fed' = 0
  /\ n_dropped' = n_dropped + Len(X1)
  /\ history' = Append(history, [op |-> "pass", epoch |-> n_epochs, phase |-> step_file])
  /\ files_read' = <<>>
  /\ pc' = "file"
  /\ UNCHANGED <<config, n_epochs, k_limit, step_file, anchor, second, arrays,
                 steps, accs, params, saved, logs, error>>

\* lines 1325-1326: the phases of the epoch are done: save every variable
SaveCheckpoint ==
  /\ pc = "phase"
  /\ step_file >= k_limit
  /\ saved' = Append(saved, [name |-> CheckpointName(n_epochs), weight |-> weight, bn |-> bn])
  /\ history' = Append(history, [op |-> "save", epoch |-> n_epochs, phase |-> step_file])
  /\ n_epochs' = n_epochs + 1
  /\ pc' = "epoch"
  /\ UNCHANGED <<config, files_read, k_limit, step_file, path, database, audio,
                 anchor, second,
                 pending, arrays, steps, accs, params, logs, counts, error>>

\* lines 1178-1182: while audio < database.shape[0]: read the next anchor file
ReadAnchor ==
  /\ pc = "file"
  /\ audio < Len(database)
  /\ chosen_audio_1' = database[audio + 1]
  /\ audio_1' = Waveform(database[audio + 1])
  /\ list_dif' = Others(database, database[audio + 1])
  /\ index_a1' = 0
  /\ files_read' = Append(files_read, database[audio + 1])
  /\ pc' = "window"
  /\ UNCHANGED <<config, loop, second, pending, arrays, steps, accs, params,
                 saved, logs, history, counts, error>>

\* the while loop ends: the phase pass is over, whatever is pending
EndPhase ==
  /\ pc = "file"
  /\ audio >= Len(database)
  /\ step_file' = step_file + 1
  /\ pc' = "phase"
  /\ UNCHANGED <<config, files_read, n_epochs, k_limit, path, database, audio,
                 anchor, second,
                 pending, arrays, steps, accs, params, saved, logs, history,
                 counts, error>>

\* line 1184: xrange(0, audio_1.shape[0], WINDOW) is exhausted; line 1323
EndFile ==
  /\ pc = "window"
  /\ index_a1 >= Len_(audio_1)
  /\ audio' = NextAudio(audio)
  /\ pc' = "file"
  /\ UNCHANGED <<config, files_read, n_epochs, k_limit, step_file, path, database,
                 anchor, second,
                 pending, arrays, steps, accs, params, saved, logs, history,
                 counts, error>>

\* line 1188: the gate is closed for this window
SkipWindow ==
  /\ pc = "window"
  /\ index_a1 < Len_(audio_1)
  /\ ~GateOpen(a1_alone)
  /\ index_a1' = index_a1 + WINDOW
  /\ UNCHANGED <<config, files_read, pc, loop, chosen_audio_1, audio_1,
                 list_dif, second,
                 pending, arrays, steps, accs, params, saved, logs, history,
                 counts, error>>

\* lines 1195-1222: the mix and the four feature images can be computed
PairOk(a1, a2) ==
  /\ Broadcastable(a1, a2)
  /\ FeaturesOk(a1)
  /\ FeaturesOk(Add(a1, a2))
  /\ FeaturesOk(a2)

\* lines 1212 and 1229: total+=1 after each of the two examples
TotalAfterOne(t) == t + 1
TotalAfterPair(t) == t + 1 + 1

CountOf(lab, labs) == Cardinality({i \in DOMAIN labs : labs[i] = lab})

\* lines 1188-1232: the gate is open: draw the second file and window,
\* append the mixed and the distinct example, test the threshold
EmitPair ==
  /\ pc = "window"
  /\ index_a1 < Len_(audio_1)
  /\ GateOpen(a1_alone)
  /\ \E r \in Randrange(Len(list_dif)) :
       LET audio_2 == Waveform(list_dif[r + 1])
       IN \E i2 \in Randrange(Len_(audio_2) - WINDOW) :
            LET a2_alone == Slice(audio_2, i2, i2 + WINDOW)
                positive == PositiveOperands(a1_alone, a2_alone)
                negative == NegativeOperands(a1_alone, a2_alone)
                labels == <<LabelPositive, LabelNegative>>
            IN /\ PairOk(a1_alone, a2_alone)
               /\ chosen_audio_2' = list_dif[r + 1]
               /\ index_a2' = i2
               /\ X1' = X1 \o <<positive[1], negative[1]>>
               /\ X2' = X2 \o <<positive[2], negative[2]>>
               /\ Y' = Y \o labels
               /\ origin' = origin \o <<path, path>>
               /\ n_pos' = n_pos + CountOf(<<0, 1>>, labels)
               /\ n_neg' = n_neg + CountOf(<<1, 0>>, labels)
  /\ total' = TotalAfterPair(total)
  /\ flag_model' = Threshold(TotalAfterPair(total), FLAGS.batch_size)
  /\ IF Threshold(TotalAfterPair(total), FLAGS.batch_size)
       THEN pc' = "batch" /\ index_a1' = index_a1
       ELSE pc' = "window" /\ index_a1' = index_a1 + WINDOW
  /\ UNCHANGED <<config, files_read, loop, chosen_audio_1, audio_1, list_dif,
                 arrays,
                 steps, accs, params, saved, logs, history, n_fed, n_dropped,
                 error>>

\* line 1190: no other file in the directory: randrange(0, 0, 1) raises
RaiseSecondFile ==
  /\ pc = "window"
  /\ index_a1 < Len_(audio_1)
  /\ GateOpen(a1_alone)
  /\ Randrange(Len(list_dif)) = {}
  /\ error' = "second_file"
  /\ pc' = "error"
  /\ UNCHANGED <<config, files_read, loop, anchor, second, pending, arrays,
                 steps, accs,
                 params, saved, logs, history, counts>>

\* line 1193: randrange(0, audio_2.shape[0]-WINDOW, 1) has nothing to return
RaiseSecondWindow ==
  /\ pc = "window"
  /\ index_a1 < Len_(audio_1)
  /\ GateOpen(a1_alone)
  /\ \E r \in Randrange(Len(list_dif)) :
       /\ Randrange(Len_(Waveform(list_dif[r + 1])) - WINDOW) = {}
       /\ chosen_audio_2' = list_dif[r + 1]
  /\ error' = "second_window"
  /\ pc' = "error"
  /\ UNCHANGED <<config, files_read, loop, anchor, index_a2, pending, arrays,
                 steps, accs,
                 params, saved, logs, history, counts>>

\* lines 1195-1205: the shapes of a1_alone and a2_alone do not fit
RaiseShape ==
  /\ pc = "window"
  /\ index_a1 < Len_(audio_1)
  /\ GateOpen(a1_alone)
  /\ \E r \in Randrange(Len(list_dif)) :
       LET audio_2 == Waveform(list_dif[r + 1])
       IN \E i2 \in Randrange(Len_(audio_2) - WINDOW) :
            /\ ~PairOk(a1_alone, Slice(audio_2, i2, i2 + WINDOW))
            /\ chosen_audio_2' = list_dif[r + 1]
            /\ index_a2' = i2
  /\ error' = "shape"
  /\ pc' = "error"
  /\ UNCHANGED <<config, files_read, loop, anchor, pending, arrays, steps, accs,
                 params, saved, logs, history, counts>>

\* lines 1235-1244: stack the lists and permute the three arrays
Assemble ==
  /\ pc = "batch"
  /\ flag_model = TRUE
  /\ \E permutation \in Permutations_(Len(X1)) :
       /\ X1_array' = Index(X1, permutation)
       /\ X2_array' = Index(X2, permutation)
       /\ Y_array' = IndexLabels(Y, permutation)
  /\ pc' = "run"
  /\ UNCHANGED <<config, files_read, loop, anchor, second, pending, steps,
                 accs, params,
                 saved, logs, history, counts, error>>

\* self.acc_batch = (self.accuracy/self.size_batch)*100 with size_batch =
\* float(FLAGS.batch_size), the scalar 'accuracy' of the summary; kept as
\* <<numerator, denominator>>
AccBatch(accuracy) == <<accuracy * 100, FLAGS.batch_size>>

\* acc_train = acc_train + train_acc (lines 1264, 1285, 1305)
AccumulateLast(acc, n) == n
Accumulate(acc, n) == acc + n

\* the progress line of lines 1267-1272 (1287-1292, 1307-1312)
Line(kind, step, acc, acc_sum) ==
  [kind |-> kind, epoch |-> n_epochs, step |-> step,
   batch |-> <<acc, FLAGS.batch_size>>,
   global |-> <<acc_sum, FLAGS.batch_size * step>>]
\* if step_train % 100 == 0 (lines 1267, 1287, 1307)
DueAlways(step) == TRUE
Due(step) == step % 100 = 0
\* output_file.write(msg + '\n') and print(msg)
Logged(kind, step, acc, acc_sum) ==
  IF Due(step) THEN Append(output_file, Line(kind, step, acc, acc_sum))
  ELSE output_file
Printed(kind, step, acc, acc_sum) ==
  IF Due(step) THEN Append(console, Line(kind, step, acc, acc_sum))
  ELSE console

\* lines 1317-1320: what is pending after a run
PendingNotReset(p) == p
PendingAfterRun(p) == [X1 |-> <<>>, X2 |-> <<>>, Y |-> <<>>, total |-> 0]

\* lines 1317-1321 and the end of the loop body; the three arrays are not
\* read again before line 1237 assigns them anew, they are left empty here
AfterRun(fetches, phase) ==
  /\ LET after == PendingAfterRun([X1 |-> X1, X2 |-> X2, Y |-> Y, total |-> total])
     IN /\ total' = after.total
        /\ X1' = after.X1 /\ X2' = after.X2 /\ Y' = after.Y
        /\ origin' = IF after.X1 = <<>> THEN <<>> ELSE origin
  /\ flag_model' = FALSE
  /\ index_a1' = index_a1 + WINDOW
  /\ n_fed' = n_fed + Len(X1_array)
  /\ X1_array' = <<>> /\ X2_array' = <<>> /\ Y_array' = <<>>
  /\ history' = Append(history, [op |-> "batch", epoch |-> n_epochs,
                                  phase |-> step_file, rows |-> Len(X1_array),
                                  dirs |-> {origin[i] : i \in DOMAIN origin},
                                  fetches |-> fetches, training |-> phase])
  /\ pc' = "window"

\* lines 1254-1274
RunTrain ==
  /\ pc = "run"
  /\ step_file = 0
  /\ weight' = RunWeight(weight, TrainFetches)
  /\ bn' = RunBN(bn, TrainFetches, TrainPhase)
  /\ summaries' = Append(summaries, [writer |-> "train", step |-> step_train,
                                      accuracy |-> AccBatch(Correct(Len(X1_array)))])
  /\ LET train_acc == Correct(Len(X1_array))
     IN /\ acc_train' = Accumulate(acc_train, train_acc)
        /\ output_file' = Logged("train", step_train, train_acc, Accumulate(acc_train, train_acc))
        /\ console' = Printed("train", step_train, train_acc, Accumulate(acc_train, train_acc))
  /\ step_train' = step_train + 1
  /\ AfterRun(TrainFetches, TrainPhase)
  /\ UNCHANGED <<config, files_read, loop, chosen_audio_1, audio_1, list_dif,
                 second,
                 step_valid, step_test, acc_valid, acc_test, saved, n_pos, n_neg,
                 n_dropped, error>>

\* lines 1277-1294
RunValid ==
  /\ pc = "run"
  /\ step_file = 1
  /\ weight' = RunWeight(weight, ValidFetches)
  /\ bn' = RunBN(bn, ValidFetches, ValidPhase)
  /\ summaries' = Append(summaries, [writer |-> "valid", step |-> step_train,
                                      accuracy |-> AccBatch(Correct(Len(X1_array)))])
  /\ LET valid_acc == Correct(Len(X1_array))
     IN /\ acc_valid' = Accumulate(acc_valid, valid_acc)
        /\ output_file' = Logged("val", step_valid, valid_acc, Accumulate(acc_valid, valid_acc))
        /\ console' = Printed("val", step_valid, valid_acc, Accumulate(acc_valid, valid_acc))
  /\ step_valid' = step_valid + 1
  /\ AfterRun(ValidFetches, ValidPhase)
  /\ UNCHANGED <<config, files_read, loop, chosen_audio_1, audio_1, list_dif,
                 second,
                 step_train, step_test, acc_train, acc_test, saved, n_pos, n_neg,
                 n_dropped, error>>

\* lines 1297-1314
RunTest ==
  /\ pc = "run"
  /\ step_file # 0 /\ step_file # 1
  /\ weight' = RunWeight(weight, TestFetches)
  /\ bn' = RunBN(bn, TestFetches, TestPhase)
  /\ summaries' = Append(summaries, [writer |-> "test", step |-> step_train,
                                      accuracy |-> AccBatch(Correct(Len(X1_array)))])
  /\ LET test_acc == Correct(Len(X1_array))
     IN /\ acc_test' = Accumulate(acc_test, test_acc)
        /\ output_file' = Logged("test", step_test, test_acc, Accumulate(acc_test, test_acc))
        /\ console' = Printed("test", step_test, test_acc, Accumulate(acc_test, test_acc))
  /\ step_test' = step_test + 1
  /\ AfterRun(TestFetches, TestPhase)
  /\ UNCHANGED <<config, files_read, loop, chosen_audio_1, audio_1, list_dif,
                 second,
                 step_train, step_valid, acc_train, acc_valid, saved, n_pos, n_neg,
                 n_dropped, error>>

Next ==
  \/ BeginEpoch \/ Finish
  \/ BeginPhase \/ SaveCheckpoint
  \/ ReadAnchor \/ EndPhase
  \/ SkipWindow \/ EmitPair \/ EndFile
  \/ RaiseSecondFile \/ RaiseSecondWindow \/ RaiseShape
  \/ Assemble
  \/ RunTrain \/ RunValid \/ RunTest

Spec == Init /\ [][Next]_vars

(***************************************************************************)
(* The scan of one phase pass for anchors (lines 1178-1188, 1323) on files *)
(* of one second.  Which windows reach the body of the if of line 1188 is  *)
(* decided by the file alone; the body itself (lines 1190-1321) is what    *)
(* Spec models, here a window that reaches it is recorded and the loop     *)
(* goes on.                                                                *)
(***************************************************************************)
SecondDirs == {"DB_second_a", "DB_second_b", "DB_second_c"}

\* the state when the while loop of line 1178 is reached in the TRAIN pass
\* of the first epoch
InitScan ==
  /\ \E d \in SecondDirs, n \in 1 .. MaxEpochs, b \in 1 .. MaxBatch :
       /\ FLAGS = [num_epochs |-> n, batch_size |-> b,
                   train_dir |-> d, valid_dir |-> d, test_dir |-> d]
       /\ k_limit = KLimit(0, n)
       /\ path = d
       /\ \E permutation_d \in Permutations_(Len(Listing(d))) :
            database = Index(Listing(d), permutation_d)
  /\ predictor \in Predictors
  /\ pc = "file"
  /\ n_epochs = 0 /\ step_file = 0
  /\ audio = 0
  /\ chosen_audio_1 = None /\ audio_1 = <<>> /\ list_dif = <<>> /\ index_a1 = 0
  /\ chosen_audio_2 = None /\ index_a2 = 0
  /\ X1 = <<>> /\ X2 = <<>> /\ Y = <<>> /\ total = 0 /\ flag_model = FALSE
  /\ origin = <<>>
  /\ X1_array = <<>> /\ X2_array = <<>> /\ Y_array = <<>>
  /\ step_train = 1 /\ step_valid = 1 /\ step_test = 1
  /\ acc_train = 0 /\ acc_valid = 0 /\ acc_test = 0
  /\ weight = InitWeight /\ bn = InitBN
  /\ saved = <<>>
  /\ summaries = <<>> /\ output_file = <<>> /\ console = <<>>
  /\ history = << [op |-> "pass", epoch |-> 0, phase |-> 0] >>
  /\ n_pos = 0 /\ n_neg = 0 /\ n_fed = 0 /\ n_dropped = 0
  /\ files_read = <<>>
  /\ error = None

\* line 1188: the gate is open and the body of the if can be computed
\* (another file exists, it holds more than one window, the shapes fit)
AcceptWindow ==
  /\ pc = "window"
  /\ index_a1 < Len_(audio_1)
  /\ GateOpen(a1_alone)
  /\ Randrange(Len(list_dif)) # {}
  /\ \A r \in Randrange(Len(list_dif)) :
       LET audio_2 == Waveform(list_dif[r + 1])
       IN /\ Randrange(Len_(audio_2) - WINDOW) # {}
          /\ PairOk(a1_alone, Slice(audio_2, 0, WINDOW))
  /\ history' = Append(history, [op |-> "anchor", epoch |-> n_epochs,
                                  phase |-> step_file, file |-> chosen_audio_1,
                                  index |-> index_a1])
  /\ index_a1' = index_a1 + WINDOW
  /\ UNCHANGED <<config, files_read, pc, loop, chosen_audio_1, audio_1,
                 list_dif, second,
                 pending, arrays, steps, accs, params, saved, logs, counts, error>>

NextScan ==
  \/ ReadAnchor \/ EndPhase
  \/ SkipWindow \/ AcceptWindow \/ EndFile

SpecScan == InitScan /\ [][NextScan]_vars

(***************************************************************************)
(* Runs of resnet.train over a long file: more than 100 batches of each    *)
(* phase, so that the progress lines of lines 1267-1272, 1287-1292 and     *)
(* 1307-1312 are written; and over directories that are empty or silent.   *)
(***************************************************************************)
LongSettings ==
  { <<"DB_long", "DB_long", "DB_long">>,
    <<"DB_long", "DB_empty", "DB_silent">>,
    <<"DB_silent", "DB_empty", "DB_silent">>,
    <<"DB_solo", "DB_long", "DB_long">>,
    <<"DB_beep", "DB_long", "DB_long">>,
    <<"DB_pop", "DB_long", "DB_long">> }

InitLong ==
  /\ \E s \in LongSettings, n \in 1 .. MaxEpochs, b \in 1 .. MaxBatch :
       FLAGS = [num_epochs |-> n, batch_size |-> b,
                train_dir |-> s[1], valid_dir |-> s[2], test_dir |-> s[3]]
  /\ predictor \in Predictors
  /\ pc = "epoch"
  /\ n_epochs = 0 /\ k_limit = 0 /\ step_file = 0 /\ path = None
  /\ database = <<>> /\ audio = 0
  /\ chosen_audio_1 = None /\ audio_1 = <<>> /\ list_dif = <<>> /\ index_a1 = 0
  /\ chosen_audio_2 = None /\ index_a2 = 0
  /\ X1 = <<>> /\ X2 = <<>> /\ Y = <<>> /\ total = 0 /\ flag_model = FALSE
  /\ origin = <<>>
  /\ X1_array = <<>> /\ X2_array = <<>> /\ Y_array = <<>>
  /\ step_train = 1 /\ step_valid = 1 /\ step_test = 1
  /\ acc_train = 0 /\ acc_valid = 0 /\ acc_test = 0
  /\ weight = InitWeight /\ bn = InitBN
  /\ saved = <<>>
  /\ summaries = <<>> /\ output_file = <<>> /\ console = <<>>
  /\ history = <<>>
  /\ n_pos = 0 /\ n_neg = 0 /\ n_fed = 0 /\ n_dropped = 0
  /\ files_read = <<>>
  /\ error = None

SpecLong == InitLong /\ [][Next]_vars

(***************************************************************************)
(* Properties.                                                             *)
(***************************************************************************)
IsPass(e) == e.op = "pass"
IsBatch(e) == e.op = "batch"
IsSave(e) == e.op = "save"
Passes == SelectSeq(history, IsPass)
BatchesOf(k) == SelectSeq(history, LAMBDA e : IsBatch(e) /\ e.phase = k)

\* the i-th phase pass of a run of num epochs: TRAIN and VALIDATE alternate,
\* pass 2*num+1 is the TEST pass of the last epoch
NthPass(i, num) ==
  IF i = 2 * num + 1
  THEN [op |-> "pass", epoch |-> num - 1, phase |-> 2]
  ELSE [op |-> "pass", epoch |-> (i - 1) \div 2, phase |-> (i - 1) % 2]

\* C1: the phase passes of a run are TRAIN then VALIDATE in every epoch,
\* and one TEST pass, in the last epoch after its VALIDATE pass; a run that
\* completes holds all 2*num_epochs+1 of them (one TEST pass also for 1 epoch).
C1_PhaseOrder ==
  /\ Len(Passes) <= 2 * FLAGS.num_epochs + 1
  /\ \A i \in 1 .. Len(Passes) : Passes[i] = NthPass(i, FLAGS.num_epochs)
  /\ pc = "done" => Len(Passes) = 2 * FLAGS.num_epochs + 1

C1_Witness ==
  /\ pc = "done"
  /\ FLAGS.num_epochs = 2
  /\ Len(BatchesOf(0)) >= 2 /\ Len(BatchesOf(1)) >= 2 /\ Len(BatchesOf(2)) >= 1

\* C2: every variable of the model has received exactly one update per
\* TRAIN batch processed so far and none from a VALIDATE or TEST batch:
\* kernels and dense matrices, every gamma and beta, every moving statistic.
C2_OnlyTrainMutates ==
  LET trained == Len(BatchesOf(0))
  IN /\ \A k \in DOMAIN weight : weight[k].steps = trained
     /\ \A v \in DOMAIN bn :
          /\ Len_(bn[v].scale_shift) = trained
          /\ Len_(bn[v].moving) = trained

C2_Witness ==
  /\ Len(BatchesOf(0)) >= 1
  /\ Len(BatchesOf(1)) >= 1
  /\ Len(BatchesOf(2)) >= 1
  /\ weight["W_fc2"].steps >= 1

\* C3: at every layer position the two towers read the same tensor of the
\* parameter mapping, before and after any number of TRAIN steps.
C3_SharedKernels ==
  /\ Len(Conv("a")) = Len(Conv("b"))
  /\ \A i \in 1 .. Len(Conv("a")) :
       /\ Conv("a")[i] \in DOMAIN weight
       /\ Conv("b")[i] \in DOMAIN weight
       /\ weight[Conv("a")[i]] = weight[Conv("b")[i]]

C3_Witness ==
  /\ pc = "run"
  /\ step_file = 0
  /\ weight["W_cn0"].steps >= 2

\* C4: in VALIDATE/TEST mode the two towers map the same spectrogram to the
\* same output (all learned state, normalization included, is shared).
C4_TowersSameFunction ==
  (pc = "run" /\ step_file # 0) =>
     \A i \in DOMAIN X1_array : TowerOut("a", X1_array[i]) = TowerOut("b", X1_array[i])

\* C5: the checkpoints written are one per finished epoch, named 0, 1, ...
\* in order; the save of epoch e follows every phase pass of epoch e (TEST
\* included in the last epoch) and precedes everything of later epochs; a
\* run that completes has written exactly num_epochs checkpoints.
C5_CheckpointPerEpoch ==
  /\ Len(saved) <= FLAGS.num_epochs
  /\ \A i \in 1 .. Len(saved) : saved[i].name = i - 1
  /\ pc = "done" => Len(saved) = FLAGS.num_epochs
  /\ Len(SelectSeq(history, IsSave)) = Len(saved)
  /\ \A i \in 1 .. Len(history) :
       IsSave(history[i]) =>
         /\ {history[j].phase : j \in {j \in 1 .. i - 1 :
                 IsPass(history[j]) /\ history[j].epoch = history[i].epoch}}
              = 0 .. (IF history[i].epoch = FLAGS.num_epochs - 1 THEN 2 ELSE 1)
         /\ \A j \in 1 .. i - 1 : history[j].epoch <= history[i].epoch
         /\ \A j \in i + 1 .. Len(history) : history[j].epoch > history[i].epoch

C5_Witness ==
  /\ pc = "done"
  /\ Len(saved) = 2
  /\ Len(BatchesOf(2)) >= 1
  /\ saved[1].weight # saved[2].weight

\* RMS(w) > VAD: RMS^2 = SumSq/(n*AmpUnit^2) and VAD^2 = VAD*VAD/AmpUnit^2
RmsAboveVAD(w) == SumSq(w) > VAD * VAD * Len_(w)

\* C6: a window whose root-mean-square amplitude is at most VAD is never an
\* anchor: the window of every first operand pending has an RMS above VAD.
C6_QuietNeverAnchor == \A i \in DOMAIN X1 : RmsAboveVAD(X1[i].of)

\* C7: every accepted anchor window that is processed emits one [0,1]
\* example and one [1,0] example, in that order, and nothing else emits an
\* example; so the two counts of a phase pass are equal in every state.
C7_Counts ==
  /\ n_pos = n_neg
  /\ n_pos + n_neg = n_fed + Len(Y)
  /\ Len(X1) = Len(Y) /\ Len(X2) = Len(Y)
  /\ \A i \in DOMAIN Y : Y[i] = (IF i % 2 = 1 THEN <<0, 1>> ELSE <<1, 0>>)
  /\ \A i \in DOMAIN Y : i % 2 = 1 => (i + 1 \in DOMAIN Y /\ Y[i] # Y[i + 1])
C7_Step ==
  LET accepted == pc = "window" /\ index_a1 < Len_(audio_1) /\ GateOpen(a1_alone)
  IN /\ (accepted /\ pc' # "error") =>
          (n_pos' = n_pos + 1 /\ n_neg' = n_neg + 1 /\ Len(Y') = Len(Y) + 2)
     /\ (n_pos' > n_pos \/ n_neg' > n_neg \/ Len(Y') > Len(Y)) => accepted
\* C7: every step keeps C7_Step and every state keeps C7_Counts
C7_PairPerAnchor == [][C7_Step]_vars /\ []C7_Counts

C7_Witness ==
  /\ n_pos = 3 /\ n_neg = 3
  /\ n_fed = 4 /\ Len(Y) = 2

\* C8: the three arrays handed to the network are one permutation of the
\* three lists: row i of the arrays is one emitted example, and every
\* emitted example of the batch is exactly one row.
C8_CoPermuted ==
  pc = "run" =>
    /\ Len(X1_array) = Len(X1) /\ Len(X2_array) = Len(X2) /\ Len(Y_array) = Len(Y)
    /\ \E p \in Permutations_(Len(X1)) :
         \A i \in 1 .. Len(X1) :
           <<X1_array[i], X2_array[i], Y_array[i]>> = <<X1[p[i]], X2[p[i]], Y[p[i]]>>

C8_Witness ==
  /\ pc = "run"
  /\ Len(Y_array) = 4
  /\ Y_array = <<LabelNegative, LabelNegative, LabelPositive, LabelPositive>>
  /\ X2_array[1] # X2_array[2]

\* C9: a batch handed to the network has batch_size or batch_size + 1
\* examples and its three arrays have one leading size.
C9_BatchSize ==
  pc = "run" =>
    /\ Len(X1_array) >= FLAGS.batch_size
    /\ Len(X1_array) <= FLAGS.batch_size + 1
    /\ Len(X2_array) = Len(X1_array)
    /\ Len(Y_array) = Len(X1_array)

C9_Witness ==
  /\ pc = "run"
  /\ FLAGS.batch_size = 3
  /\ Len(X1_array) = 4

C9_WitnessExact ==
  /\ pc = "run"
  /\ FLAGS.batch_size = 2
  /\ Len(X1_array) = 2

\* C10: what is pending when a phase pass ends is never fed: every pass
\* starts with empty lists, what is pending or fed was emitted in the
\* current pass, and no batch is smaller than batch_size.
C10_RemainderDropped ==
  /\ (pc = "file" /\ audio = 0) =>
        (X1 = <<>> /\ X2 = <<>> /\ Y = <<>> /\ total = 0)
  /\ total = Len(X1)
  /\ n_fed + Len(X1) = n_pos + n_neg
  /\ pc = "run" =>
        /\ Len(X1_array) >= FLAGS.batch_size
        /\ n_fed + Len(X1_array) <= n_pos + n_neg

C10_Witness ==
  /\ n_dropped > 0
  /\ pc = "run"
  /\ step_file = 1
  /\ n_epochs = 1

IsAnchor(e) == e.op = "anchor"
AnchorsOf(f) == SelectSeq(history, LAMBDA e : IsAnchor(e) /\ e.file = f)
WindowStarts(n) == {WINDOW * k : k \in 0 .. (n - 1)}

\* C11: a phase pass over a corpus of noise.wav (one second, every window
\* of RMS 0.2) and a second file of one second whose windows all have RMS
\* 0.01 takes each of the 20 windows of noise.wav as anchor exactly once
\* and takes no window of the other file as anchor.
C11_Scenario ==
  (pc = "phase" /\ FLAGS.train_dir \in SecondDirs) =>
     /\ Len(AnchorsOf("noise.wav")) = WindowsPerSecond
     /\ {e.index : e \in {AnchorsOf("noise.wav")[i] : i \in DOMAIN AnchorsOf("noise.wav")}}
          = WindowStarts(WindowsPerSecond)
     /\ \A f \in {database[i] : i \in DOMAIN database} :
          f # "noise.wav" => AnchorsOf(f) = <<>>

\* C12: the windows tested at the gate are the floor(L / WINDOW) full
\* windows of the anchor file: a window under test has WINDOW samples, so
\* a file shorter than WINDOW has no window tested, and no error comes
\* from a window that is not full.
C12_FullWindowsOnly ==
  /\ (pc = "window" /\ index_a1 < Len_(audio_1)) =>
        /\ Len_(a1_alone) = WINDOW
        /\ index_a1 \in WindowStarts(Len_(audio_1) \div WINDOW)
  /\ pc = "error" => Len_(a1_alone) = WINDOW

IsPermutationOf(s, listed) ==
  /\ Len(s) = Len(listed)
  /\ \E p \in Permutations_(Len(listed)) : s = Index(listed, p)
InPass == pc \in {"file", "window", "batch", "run"}
PassesOf(k) == SelectSeq(history, LAMBDA e : IsPass(e) /\ e.phase = k)

\* the files read in the current phase pass are the first files of the
\* permuted listing of the directory of the pass, in its order; when the
\* pass is over they are all of it (each file once); a finished run made
\* num_epochs TRAIN passes, num_epochs VALIDATE passes and one TEST pass
C13_State ==
  /\ InPass =>
       /\ IsPermutationOf(database, Listing(Path(step_file)))
       /\ Len(files_read) = (IF pc = "file" THEN audio ELSE audio + 1)
       /\ files_read = SubSeq(database, 1, Len(files_read))
  /\ (pc = "phase" /\ step_file > 0) =>
       /\ IsPermutationOf(database, Listing(Path(step_file - 1)))
       /\ files_read = database
  /\ pc = "done" =>
       /\ Len(Passes) = 2 * FLAGS.num_epochs + 1
       /\ Len(PassesOf(0)) = FLAGS.num_epochs
       /\ Len(PassesOf(1)) = FLAGS.num_epochs
       /\ Len(PassesOf(2)) = 1

\* what is left of the nested loops, outermost first: epochs, phases of
\* the epoch, files of the pass, samples of the file, steps of the window
Rank(p) ==
  CASE p = "window" -> 3
    [] p = "batch" -> 2
    [] p = "run" -> 1
    [] OTHER -> 0
Measure ==
  << FLAGS.num_epochs - n_epochs,
     IF pc = "epoch" THEN 1 ELSE 0,
     k_limit - step_file,
     IF pc = "phase" THEN 1 ELSE 0,
     Len(database) - audio,
     IF pc = "file" THEN 1 ELSE 0,
     Len_(audio_1) - index_a1,
     Rank(pc) >>

RECURSIVE LexLess(_, _)
LexLess(a, b) ==
  IF a = <<>> \/ b = <<>> THEN FALSE
  ELSE a[1] < b[1] \/ (a[1] = b[1] /\ LexLess(Tail(a), Tail(b)))

Ended == pc = "done" \/ pc = "error"

C13_Progress ==
  /\ \A i \in DOMAIN Measure : Measure[i] >= 0 - WINDOW
  /\ Ended \/ ENABLED Next

\* C13: every run ends: every step of train brings the nested loops
\* nearer to their end (the measure falls in the lexicographic order and is
\* bounded below) and train can always step until it has returned or an
\* error has ended it; a run that returns made exactly 2 * num_epochs + 1
\* phase passes, and every phase pass reads every file of its directory
\* exactly once as anchor file, in the order of the permutation drawn for it.
C13_Terminates ==
  /\ []C13_State
  /\ []C13_Progress
  /\ [][LexLess(Measure', Measure)]_vars

C13_Witness ==
  /\ pc = "done"
  /\ FLAGS.num_epochs = 2
  /\ Len(files_read) = 3
  /\ files_read # Listing(FLAGS.test_dir)
  /\ Len(BatchesOf(2)) >= 1

\* the units of the four stages and the channel count each stage yields
UnitsPerStage == <<3, 4, 6, 3>>
StageWidth == <<256, 512, 1024, 2048>>
NUnits == UnitsPerStage[1] + UnitsPerStage[2] + UnitsPerStage[3] + UnitsPerStage[4]

\* <<stage, position in the stage>> of the k-th unit of a tower
RECURSIVE StageOf(_, _)
StageOf(k, s) ==
  IF k <= UnitsPerStage[s] THEN <<s, k>> ELSE StageOf(k - UnitsPerStage[s], s + 1)

ShapesA == TowerShapes("a", InputShape)
ShapesB == TowerShapes("b", InputShape)
Shapes(t) == IF t = "a" THEN ShapesA ELSE ShapesB

\* the add of every unit, in order; a unit begins at the first convolution
\* after the add of the unit before it (after max_pool_2x2 for the first)
AddsOf(T) == SelectSeq([i \in 1 .. Len(T) |-> i], LAMBDA i : T[i].fn = "add")
UnitStart(T, adds, k) ==
  LET from == IF k = 1 THEN CHOOSE i \in 1 .. Len(T) : T[i].fn = "max_pool_2x2"
              ELSE adds[k - 1]
  IN CHOOSE i \in (from + 1) .. adds[k] :
       /\ IsConv(T[i].fn)
       /\ \A j \in (from + 1) .. (i - 1) : ~IsConv(T[j].fn)

UnitOk(T, adds, k) ==
  LET a == T[adds[k]]
      input == T[UnitStart(T, adds, k)].x
      stage == StageOf(k, 1)[1]
      first == StageOf(k, 1)[2] = 1
  IN /\ a.x.shape = a.y.shape
     /\ a.out.shape[3] = StageWidth[stage]
     /\ a.out.shape[1] = input.shape[1] /\ a.out.shape[2] = input.shape[2]
     /\ IF first
        THEN \* projection: add reads batch_normalization(conv(unit input))
             /\ a.y.id >= 1
             /\ T[a.y.id].fn = "batch_normalization"
             /\ T[a.y.id].x.id >= 1
             /\ IsConv(T[T[a.y.id].x.id].fn)
             /\ T[T[a.y.id].x.id].x = input
             /\ T[T[a.y.id].x.id].out.shape[3] = StageWidth[stage]
        ELSE \* identity: add reads the tensor the unit began from
             /\ a.y = input
             /\ input.shape[3] = a.out.shape[3]

KernelsFit(T) ==
  \A i \in 1 .. Len(T) :
    IsConv(T[i].fn) => KernelShape[T[i].key][3] = T[i].x.shape[3]

C14_Towers ==
  \A t \in Towers :
    /\ Len(AddsOf(Shapes(t))) = NUnits
    /\ \A k \in 1 .. NUnits : UnitOk(Shapes(t), AddsOf(Shapes(t)), k)
    /\ KernelsFit(Shapes(t))

\* C14: in both towers each of the 16 units (3, 4, 6, 3 per stage) adds two
\* tensors of one shape; the first unit of a stage adds a projection of the
\* unit's input with the stage's width (256, 512, 1024, 2048), every other
\* unit adds its own input, whose channel count is the unit's output channel
\* count; every kernel's in_channels is the channel count of the tensor it
\* is applied to; the images fed have the shape the towers start from.
C14_UnitShapes ==
  /\ C14_Towers
  /\ pc = "run" =>
       \A i \in DOMAIN X1_array :
         X1_array[i].shape = InputShape /\ X2_array[i].shape = InputShape

C14_Witness ==
  /\ pc = "run"
  /\ Len(X1_array) >= 2
  /\ Len(AddsOf(ShapesB)) = NUnits
  /\ \E k \in 1 .. NUnits :
       /\ StageOf(k, 1)[2] = 1
       /\ ShapesB[UnitStart(ShapesB, AddsOf(ShapesB), k)].x.shape[3]
            # ShapesB[AddsOf(ShapesB)[k]].out.shape[3]

\* C15: the draw of the second window fails exactly when the second file
\* is shorter than WINDOW: an error of the draw means a file shorter than
\* WINDOW, and a window that was drawn has WINDOW samples inside the file.
C15_DrawFailsIffShort ==
  /\ error = "second_window" => Len_(Waveform(chosen_audio_2)) < WINDOW
  /\ (chosen_audio_2 # None /\ error # "second_window") =>
        /\ Len_(Waveform(chosen_audio_2)) >= WINDOW
        /\ 0 <= index_a2
        /\ index_a2 + WINDOW <= Len_(Waveform(chosen_audio_2))
        /\ Len_(Slice(Waveform(chosen_audio_2), index_a2, index_a2 + WINDOW)) = WINDOW

\* C16: when an anchor window is accepted, every window start from 0 to
\* len(B) - WINDOW of every other file B of the directory can be drawn
\* as the second window, whatever that window holds.
C16_AnyWindowSelectable ==
  (/\ pc = "window"
   /\ index_a1 < Len_(audio_1)
   /\ GateOpen(a1_alone)
   /\ Len_(a1_alone) = WINDOW) =>
     \A r \in DOMAIN list_dif :
       \A s \in 0 .. (Len_(Waveform(list_dif[r])) - WINDOW) :
         ENABLED (EmitPair /\ chosen_audio_2' = list_dif[r] /\ index_a2' = s)

FilesOf(dir) == {Listing(dir)[i] : i \in DOMAIN Listing(dir)}

\* a step that emits an example pair
Emits == n_pos' > n_pos

C17_Step ==
  Emits =>
    /\ chosen_audio_1' = chosen_audio_1
    /\ chosen_audio_1 \in FilesOf(Path(step_file))
    /\ chosen_audio_2' \in FilesOf(Path(step_file))
    /\ chosen_audio_2' # chosen_audio_1
    /\ X2'[Len(X2')].of =
         Slice(Waveform(chosen_audio_2'), index_a2', index_a2' + WINDOW)

\* C17: whenever an example pair is emitted, the file the second window is
\* cut from is a file of the directory of the current phase pass and is
\* not the anchor file.
C17_SecondFileIsAnother == [][C17_Step]_vars

C17_Witness ==
  /\ Len(Y) >= 2
  /\ Len(database) = 3
  /\ step_file = 2
  /\ chosen_audio_1 = database[1]
  /\ chosen_audio_2 = database[3]
  /\ X2[Len(X2)].of = Slice(Waveform(database[3]), index_a2, index_a2 + WINDOW)

\* C18: the examples pending come in pairs made from one anchor window
\* and one second window: the [0,1] example and the [1,0] example that
\* follows it have the same first operand features(a1); the second operand
\* of the [1,0] example is features(a2) and that of the [0,1] example is
\* features(a1 + a2) with the same a2; the last pair's a2 is the one window
\* drawn last (chosen_audio_2, index_a2).
C18_PairCoupled ==
  /\ \A i \in DOMAIN Y :
       i % 2 = 1 =>
         /\ i + 1 \in DOMAIN Y
         /\ Y[i] = <<0, 1>> /\ Y[i + 1] = <<1, 0>>
         /\ X1[i] = X1[i + 1]
         /\ X1[i] = Features(X1[i].of)
         /\ Len_(X1[i].of) = WINDOW /\ Len_(X2[i + 1].of) = WINDOW
         /\ X2[i + 1] = Features(X2[i + 1].of)
         /\ X2[i] = Features(Add(X1[i].of, X2[i + 1].of))
  /\ (Y # <<>> /\ pc # "error") =>
       X2[Len(X2)].of =
         Slice(Waveform(chosen_audio_2), index_a2, index_a2 + WINDOW)

C18_Witness ==
  /\ Len(Y) = 4
  /\ X1[1] # X1[3]
  /\ X2[2] # X2[4]
  /\ X2[1] # X1[1]
  /\ X2[1] # X2[2]
  /\ SumAbs(X2[2].of) > 0

IsRun == pc = "run" /\ pc' # "run"
Runs == Len(summaries)

C19_State ==
  /\ X1_array # <<>> => pc = "run"
  /\ pc = "run" =>
       /\ X1_array # <<>>
       /\ Len(X1_array) = Len(X1)
       /\ n_fed + Len(X1_array) = n_pos + n_neg
  /\ flag_model => pc \in {"batch", "run"}
  /\ n_fed <= n_pos + n_neg
  /\ Runs = Len(SelectSeq(history, IsBatch))

C19_Step ==
  /\ pc = "batch" => (pc' = "run" /\ Runs' = Runs /\ X1' = X1)
  /\ pc = "run" =>
       /\ pc' = "window"
       /\ Runs' = Runs + 1
       /\ n_fed' = n_fed + Len(X1_array)
       /\ X1' = <<>> /\ X2' = <<>> /\ Y' = <<>> /\ total' = 0
       /\ flag_model' = FALSE
       /\ X1_array' = <<>> /\ X2_array' = <<>> /\ Y_array' = <<>>
  /\ Runs' # Runs => pc = "run"
  /\ Emits => (pc = "window" /\ X1_array = <<>> /\ ~flag_model /\ total < FLAGS.batch_size)

\* C19: an assembled batch exists only between its assembly and the one
\* run that consumes it; that run empties the pending lists and the count
\* before the next example is emitted; the examples fed so far and those
\* of the batch at hand are together the examples emitted, so none is fed
\* twice.
C19_Sequential == [][C19_Step]_vars /\ []C19_State

C19_Witness ==
  /\ pc = "run"
  /\ n_fed >= 4
  /\ Len(X1_array) >= 2
  /\ Len(BatchesOf(step_file)) >= 2
  /\ n_fed + Len(X1_array) = n_pos + n_neg

RECURSIVE SumRows(_)
SumRows(s) == IF s = <<>> THEN 0 ELSE Correct(s[1].rows) + SumRows(Tail(s))
\* the correct-counts of the batches of phase k, of the whole run and of
\* the current epoch
RunTotal(k) == SumRows(BatchesOf(k))
EpochTotal(k) == SumRows(SelectSeq(BatchesOf(k), LAMBDA e : e.epoch = n_epochs))
Acc(k) == IF k = 0 THEN acc_train ELSE IF k = 1 THEN acc_valid ELSE acc_test
Step(k) == IF k = 0 THEN step_train ELSE IF k = 1 THEN step_valid ELSE step_test
Kind(k) == IF k = 0 THEN "train" ELSE IF k = 1 THEN "val" ELSE "test"
\* the progress line of the batch at hand (written when the step is a
\* multiple of 100)
LineAtHand ==
  Line(Kind(step_file), Step(step_file), Correct(Len(X1_array)),
       Accumulate(Acc(step_file), Correct(Len(X1_array))))

\* C20: the running total of a phase is a total of the epoch: it is zero
\* when an epoch starts, and the cumulative accuracy of a progress line is
\* computed from the batches of that phase of the current epoch only.
C20_EpochTotal ==
  /\ (pc = "phase" /\ step_file = 0) =>
        (acc_train = 0 /\ acc_valid = 0 /\ acc_test = 0)
  /\ n_epochs < FLAGS.num_epochs => \A k \in 0 .. 2 : Acc(k) = EpochTotal(k)
  /\ pc = "run" =>
        LineAtHand.global[1] = EpochTotal(step_file) + Correct(Len(X1_array))

\* C20 as amended: the running total of a phase is a total of the run: it
\* is zero when the epoch loop is entered and is the sum of the correct-
\* counts of all batches of that phase since, of every epoch so far; the
\* step of the phase counts the same batches, and the cumulative accuracy
\* of a progress line is that sum over batch_size times that count.
C20_RunTotal ==
  /\ \A k \in 0 .. 2 :
       /\ Acc(k) = RunTotal(k)
       /\ Step(k) = Len(BatchesOf(k)) + 1
  /\ history = <<>> => (acc_train = 0 /\ acc_valid = 0 /\ acc_test = 0)
  /\ pc = "run" =>
       /\ LineAtHand.epoch = n_epochs
       /\ LineAtHand.global[1] = RunTotal(step_file) + Correct(Len(X1_array))
       /\ LineAtHand.global[2] = FLAGS.batch_size * (Len(BatchesOf(step_file)) + 1)

C20_Witness ==
  /\ pc = "run"
  /\ n_epochs = 1
  /\ step_file = 1
  /\ predictor = "all"
  /\ EpochTotal(1) > 0
  /\ RunTotal(1) > EpochTotal(1)
  /\ acc_train > 0


(***************************************************************************)
(* The progress lines.                                                     *)
(***************************************************************************)
LinesOf(kind) == SelectSeq(output_file, LAMBDA l : l.kind = kind)

\* C21: for each phase kind, after k batches of that kind floor(k / 100)
\* progress lines of that kind have been written, the i-th of them at the
\* batch whose step index is 100 * i and at no other; the console holds
\* the same lines as the results log.
C21_ProgressLines ==
  /\ console = output_file
  /\ \A k \in 0 .. 2 :
       LET lines == LinesOf(Kind(k))
       IN /\ Step(k) = Len(BatchesOf(k)) + 1
          /\ Len(lines) = Len(BatchesOf(k)) \div 100
          /\ \A i \in 1 .. Len(lines) : lines[i].step = 100 * i

C21_Witness ==
  /\ Len(LinesOf("train")) = 2
  /\ Len(LinesOf("val")) = 2
  /\ Len(LinesOf("test")) = 1
  /\ Len(BatchesOf(2)) = SpeechWindows
  /\ console = output_file

(***************************************************************************)
(* What the phase decides.                                                 *)
(***************************************************************************)
PhaseDir(k) ==
  CASE k = 0 -> FLAGS.train_dir
    [] k = 1 -> FLAGS.valid_dir
    [] k = 2 -> FLAGS.test_dir

\* C22: every batch of a TRAIN pass holds examples of train_dir only and
\* is run in training mode with the optimizer and the update of the moving
\* statistics among the fetches; every batch of a VALIDATE pass holds
\* examples of valid_dir only, every batch of a TEST pass examples of
\* test_dir only, and both are run in inference mode without the optimizer;
\* the examples pending in a pass are all of the directory of that pass.
C22_PhaseDecides ==
  /\ \A i \in DOMAIN history :
       IsBatch(history[i]) =>
         LET e == history[i]
         IN /\ e.dirs = {PhaseDir(e.phase)}
            /\ e.phase = 0 =>
                 /\ e.training = TRUE
                 /\ {"optimizer", "extra_update_ops"} \subseteq e.fetches
            /\ e.phase # 0 =>
                 /\ e.training = FALSE
                 /\ "optimizer" \notin e.fetches
                 /\ "extra_update_ops" \notin e.fetches
  /\ Len(origin) = Len(X1)
  /\ InPass => \A i \in DOMAIN origin : origin[i] = PhaseDir(step_file)

C22_Witness ==
  /\ pc = "done"
  /\ Cardinality({FLAGS.train_dir, FLAGS.valid_dir, FLAGS.test_dir}) = 3
  /\ \A k \in 0 .. 2 : Len(BatchesOf(k)) >= 1
  /\ \E i \in DOMAIN history :
       IsBatch(history[i]) /\ history[i].phase = 2 /\ history[i].rows >= 2

(***************************************************************************)
(* Where the towers down-sample.                                           *)
(***************************************************************************)
Spatial(shape) == <<shape[1], shape[2]>>
StridedOps(ops) == {i \in 1 .. Len(ops) : (IsConv(ops[i][1]) \/ IsPool(ops[i][1])) /\ Strides(ops[i][1]) # 1}
IndexOf(ops, fn) == CHOOSE i \in 1 .. Len(ops) : ops[i][1] = fn
LastAdd(ops) == CHOOSE i \in 1 .. Len(ops) : ops[i][1] = "add" /\ \A j \in (i + 1) .. Len(ops) : ops[j][1] # "add"

\* what a tower makes of an image: the operations that change height or
\* width, and the shapes after the max-pool, after stage 4 and at the end
Summary(t, T) ==
  [changed |-> {i \in 1 .. Len(T) : Spatial(T[i].out.shape) # Spatial(T[i].x.shape)},
   pooled |-> T[IndexOf(Ops(t), "max_pool_2x2")].out.shape,
   stage4 |-> T[LastAdd(Ops(t))].out.shape,
   final |-> T[Len(T)].out.shape]

Sides == 1 .. MaxSide
TowerRuns ==
  [t \in Towers |->
     [h \in Sides |-> [w \in Sides |-> Summary(t, TowerShapes(t, <<h, w, CHANNELS>>))]]]
Configured == [t \in Towers |-> Summary(t, Shapes(t))]

\* the three down-sampling operations of a tower have the kernel sizes and
\* places the architecture names; every other convolution has stride 1
Downsamplers(t) ==
  {1, IndexOf(Ops(t), "max_pool_2x2"), Len(Ops(t))}
C23_Strides ==
  \A t \in Towers :
    LET ops == Ops(t)
    IN /\ StridedOps(ops) = Downsamplers(t)
       /\ ops[1][1] = "conv2ds2" /\ Strides("conv2ds2") = 2
       /\ KernelShape[ops[1][4]][1] = 7 /\ KernelShape[ops[1][4]][2] = 7
       /\ Strides("max_pool_2x2") = 2 /\ KSize("max_pool_2x2") = <<2, 2>>
       /\ ops[Len(ops)][1] = "avg_pool_2x2"
       /\ Strides("avg_pool_2x2") = 2 /\ KSize("avg_pool_2x2") = <<7, 7>>
       /\ \A i \in 2 .. Len(ops) : IsConv(ops[i][1]) => Strides(ops[i][1]) = 1
       /\ IndexOf(ops, "max_pool_2x2") < LastAdd(ops)

SummaryOk(t, r, h, w) ==
  /\ r.changed \subseteq Downsamplers(t)
  /\ Spatial(r.stage4) = Spatial(r.pooled)
  /\ Spatial(r.pooled) = <<CeilDiv(h, 4), CeilDiv(w, 4)>>
  /\ r.final = <<CeilDiv(h, 8), CeilDiv(w, 8), 2048>>

C23_Shapes ==
  /\ \A t \in Towers : \A h \in Sides : \A w \in Sides :
       SummaryOk(t, TowerRuns[t][h][w], h, w)
  /\ \A h \in Sides : \A w \in Sides :
       /\ ConcatOk(TowerRuns["a"][h][w].final, TowerRuns["b"][h][w].final)
       /\ FlatLengthOf(Concat(TowerRuns["a"][h][w].final, TowerRuns["b"][h][w].final))
            = 2 * 2048 * CeilDiv(h, 8) * CeilDiv(w, 8)
  /\ \A t \in Towers :
       /\ SummaryOk(t, Configured[t], IN_HEIGHT, IN_WIDTH)
       /\ Configured[t].changed = Downsamplers(t)
  /\ ConcatOk(Configured["a"].final, Configured["b"].final)
  /\ FlatLengthOf(Concat(Configured["a"].final, Configured["b"].final)) = FlatWidth
  /\ FlatWidth = DenseShape.W_fc1[1]
  /\ FlatWidth = 2 * 2048 * CeilDiv(IN_HEIGHT, 8) * CeilDiv(IN_WIDTH, 8)

\* C23: in each tower only the stem convolution (7x7, stride 2), the
\* max-pool (2x2, stride 2) and the final average pool (7x7, stride 2)
\* change height or width, every other convolution has stride 1 and the
\* shape after stage 4 has the height and width the max-pool left; an
\* image of H x W gives a flattened head input of
\* 2 * 2048 * ceil(H/8) * ceil(W/8) values, which for the images fed
\* (64 x SIZE_COLS) is the number of rows of W_fc1.
C23_Downsampling ==
  /\ C23_Strides
  /\ C23_Shapes
  /\ pc = "run" =>
       \A i \in DOMAIN X1_array :
         /\ Spatial(X1_array[i].shape) = <<IN_HEIGHT, IN_WIDTH>>
         /\ Spatial(X2_array[i].shape) = <<IN_HEIGHT, IN_WIDTH>>

C23_Witness ==
  /\ pc = "run"
  /\ Len(X1_array) >= 2
  /\ X1_array[1].shape = InputShape
  /\ Configured["a"].final = <<HEIGHT_AFTER_CONV, WIDTH_AFTER_CONV, 2048>>
  /\ TowerRuns["b"][MaxSide][9].final = <<3, 2, 2048>>
  /\ TowerRuns["b"][MaxSide][9].changed = Downsamplers("b")

(***************************************************************************)
(* The windows the feature extractor is given.                             *)
(***************************************************************************)
\* the windows a1_alone, a1_mix_a2, a2_alone that lines 1198-1216 pass to
\* signal.spectrogram for the anchor window at hand, for every second
\* window that can be drawn and can be added to it
Extracted ==
  IF pc = "window" /\ index_a1 < Len_(audio_1) /\ GateOpen(a1_alone)
  THEN UNION { UNION { LET a2_alone == Slice(Waveform(list_dif[r + 1]), i2, i2 + WINDOW)
                       IN IF Broadcastable(a1_alone, a2_alone)
                          THEN {a1_alone, Add(a1_alone, a2_alone), a2_alone}
                          ELSE {} :
                       i2 \in Randrange(Len_(Waveform(list_dif[r + 1])) - WINDOW) } :
               r \in Randrange(Len(list_dif)) }
  ELSE {}

C24_Constants ==
  /\ SIZE_COLS = CeilDiv(WINDOW - NPERSEG, NPERSEG - NOVERLAP)
  /\ SIZE_COLS = (WINDOW - NOVERLAP) \div (NPERSEG - NOVERLAP)
  /\ \A i \in DOMAIN X1 :
       /\ X1[i].shape = <<SIZE_FFT, SIZE_COLS, 1>>
       /\ X2[i].shape = <<SIZE_FFT, SIZE_COLS, 1>>
       /\ Len_(X1[i].of) = WINDOW /\ Len_(X2[i].of) = WINDOW

\* C24: SIZE_COLS is the number of segments of a window of WINDOW samples,
\* every window given to the extractor has exactly WINDOW samples and its
\* spectrogram is reshaped to (64, SIZE_COLS, 1) without error, and every
\* image emitted has that shape.
C24_SpectrogramShape ==
  /\ C24_Constants
  /\ \A w \in Extracted : Len_(w) = WINDOW /\ FeaturesOk(w)

(***************************************************************************)
(* The accuracies reported.                                                *)
(***************************************************************************)
\* a ratio <<numerator, denominator>> that lies in 0 .. limit
Within(ratio, limit) ==
  /\ ratio[2] > 0
  /\ 0 <= ratio[1]
  /\ ratio[1] <= limit * ratio[2]

\* C25: the batch accuracy of every summary lies in [0, 100], and the
\* batch accuracy and the cumulative accuracy of every progress line lie
\* in [0, 1].
C25_AccuracyBounded ==
  /\ \A i \in DOMAIN summaries : Within(summaries[i].accuracy, 100)
  /\ \A i \in DOMAIN output_file :
       /\ Within(output_file[i].batch, 1)
       /\ Within(output_file[i].global, 1)

(***************************************************************************)
(* Pairs and minibatches.                                                  *)
(***************************************************************************)
\* C26: the pending count is even and is the length of each of the three
\* pending lists, whose rows 2k-1 and 2k are the mixed and the distinct
\* example of one anchor window; outside the assembly and the run of a
\* batch the count is smaller than batch_size; the batch that is run holds
\* all pending rows, an even number, with as many [0,1] as [1,0] labels.
C26_PairsTogether ==
  /\ Len(X1) = total /\ Len(X2) = total /\ Len(Y) = total
  /\ total % 2 = 0
  /\ \A k \in 1 .. (total \div 2) :
       /\ Y[2 * k - 1] = <<0, 1>> /\ Y[2 * k] = <<1, 0>>
       /\ X1[2 * k - 1] = X1[2 * k]
  /\ pc \notin {"batch", "run"} => total < FLAGS.batch_size
  /\ pc = "run" =>
       /\ Len(X1_array) = total
       /\ Len(X2_array) = total /\ Len(Y_array) = total
       /\ CountOf(<<0, 1>>, Y_array) = CountOf(<<1, 0>>, Y_array)
       /\ CountOf(<<0, 1>>, Y_array) + CountOf(<<1, 0>>, Y_array) = Len(Y_array)
  /\ \A i \in DOMAIN history :
       IsBatch(history[i]) => history[i].rows % 2 = 0

C26_Witness ==
  /\ pc = "run"
  /\ FLAGS.batch_size = 3
  /\ Len(X1_array) = 4
  /\ Y_array[1] = Y_array[2]
  /\ Len(BatchesOf(step_file)) >= 1

(***************************************************************************)
(* The step indices of the summaries.                                      *)
(***************************************************************************)
\* every run writes one summary and is recorded as one batch, so the i-th
\* summary is that of the i-th batch
Batches == SelectSeq(history, IsBatch)
SamePass(i, j) ==
  /\ Batches[i].epoch = Batches[j].epoch
  /\ Batches[i].phase = Batches[j].phase

\* C27: two summaries written in one phase pass carry different step
\* indices, the later one the larger, whatever the phase.
C27_StepsIncrease ==
  /\ Len(summaries) = Len(Batches)
  /\ \A i \in DOMAIN summaries : \A j \in DOMAIN summaries :
       (i < j /\ SamePass(i, j)) => summaries[i].step < summaries[j].step

(***************************************************************************)
(* What a checkpoint holds.                                                *)
(***************************************************************************)
TrainedUpTo(e) == Len(SelectSeq(BatchesOf(0), LAMBDA b : b.epoch <= e))

\* once the TRAIN pass of an epoch is over no step changes a variable of
\* the model, and the step that saves stores the variables as they are
C28_Step ==
  /\ step_file # 0 => (weight' = weight /\ bn' = bn)
  /\ saved' # saved =>
       /\ pc = "phase" /\ step_file = k_limit
       /\ Len(saved') = Len(saved) + 1
       /\ saved'[Len(saved')].name = n_epochs
       /\ saved'[Len(saved')].weight = weight
       /\ saved'[Len(saved')].bn = bn
       /\ weight' = weight /\ bn' = bn

\* the checkpoint of epoch e holds every variable with exactly the updates
\* of the TRAIN batches of epochs 0 .. e
C28_State ==
  \A i \in DOMAIN saved :
    LET trained == TrainedUpTo(saved[i].name)
    IN /\ \A k \in DOMAIN weight : saved[i].weight[k].steps = trained
       /\ \A v \in DOMAIN bn :
            /\ Len_(saved[i].bn[v].scale_shift) = trained
            /\ Len_(saved[i].bn[v].moving) = trained

\* C28: the checkpoint of epoch e holds the variables as the last TRAIN
\* step of epoch e left them: no step of the VALIDATE pass, of the TEST
\* pass or between them changes a variable, and the save stores the
\* variables of that moment.
C28_CheckpointIsTrained == [][C28_Step]_vars /\ []C28_State

C28_Witness ==
  /\ pc = "done"
  /\ Len(saved) = 2
  /\ saved[1].weight # saved[2].weight
  /\ saved[2].weight = weight /\ saved[2].bn = bn
  /\ Len(SelectSeq(BatchesOf(1), LAMBDA b : b.epoch = 1)) >= 1
  /\ Len(BatchesOf(2)) >= 1

(***************************************************************************)
(* A directory of one file.                                                *)
(***************************************************************************)
\* an anchor window of the only file of the directory is accepted
SoloAccepted ==
  /\ pc = "window"
  /\ Len(database) = 1
  /\ index_a1 < Len_(audio_1)
  /\ GateOpen(a1_alone)

\* the windows of the anchor file before the one at hand
WindowsBefore == {j \in 0 .. (index_a1 \div WINDOW) : j * WINDOW < index_a1}

\* the only step from an accepted window of a lone file is the error of
\* the draw of the second file, which emits nothing, runs nothing and saves
\* nothing; and no step follows an error
C29_Step ==
  /\ error = None
  /\ SoloAccepted =>
       /\ error' = "second_file" /\ pc' = "error"
       /\ UNCHANGED <<pending, arrays, steps, accs, params, saved, logs, history,
                      second, counts>>

C29_State ==
  /\ (InPass /\ Len(database) = 1) =>
       /\ pc \notin {"batch", "run"}
       /\ X1 = <<>> /\ X2 = <<>> /\ Y = <<>> /\ total = 0
       /\ n_pos = 0 /\ n_neg = 0 /\ n_fed = 0
  /\ error = "second_file" =>
       /\ Len(database) = 1 /\ list_dif = <<>>
       /\ X1 = <<>> /\ total = 0
       /\ GateOpen(a1_alone)
       /\ \A j \in WindowsBefore :
            ~GateOpen(Slice(audio_1, j * WINDOW, (j + 1) * WINDOW))
  /\ pc = "done" =>
       \A k \in 0 .. 2 :
         Len(Listing(PhaseDir(k))) = 1 =>
           \A i \in DOMAIN Listing(PhaseDir(k)) :
             \A j \in 0 .. (Len_(Waveform(Listing(PhaseDir(k))[i])) \div WINDOW) :
               LET w == Waveform(Listing(PhaseDir(k))[i])
               IN j * WINDOW < Len_(w) =>
                    ~GateOpen(Slice(w, j * WINDOW, (j + 1) * WINDOW))

\* C29: when the directory of a pass holds one file, the first window of
\* it that the gate accepts ends the run with the error of the draw of the
\* second file: the file is never paired with itself, no example is
\* emitted, no further batch is run and no further checkpoint written.
C29_LoneFileAborts == [][C29_Step]_vars /\ []C29_State

C29_Witness ==
  /\ error = "second_file"
  /\ pc = "error"
  /\ Listing(FLAGS.train_dir) = <<"loud.wav">>
  /\ chosen_audio_1 = "loud.wav"
  /\ chosen_audio_2 = None
  /\ X1 = <<>> /\ history = << [op |-> "pass", epoch |-> 0, phase |-> 0] >>
  /\ saved = <<>>

(***************************************************************************)
(* A directory that yields no anchor.                                      *)
(***************************************************************************)
WindowsOf(w) == {j \in 0 .. (Len_(w) \div WINDOW) : j * WINDOW < Len_(w)}

\* the directory holds no audio file, or the gate rejects every window of
\* every file of it
Barren(dir) ==
  \A i \in DOMAIN Listing(dir) :
    \A j \in WindowsOf(Waveform(Listing(dir)[i])) :
      ~GateOpen(Slice(Waveform(Listing(dir)[i]), j * WINDOW, (j + 1) * WINDOW))

\* the directories of the runs explored, and those of them that yield no
\* anchor
Dirs == UNION {{s[1], s[2], s[3]} : s \in Settings \cup LongSettings}
BarrenDirs == {d \in Dirs : Barren(d)}

\* a step of a pass over such a directory changes no variable of the
\* model, no step counter, no accumulator and no log, raises no error and
\* stays in the file and window loops or ends the pass
C30_Step ==
  (InPass /\ path \in BarrenDirs) =>
    /\ UNCHANGED <<params, steps, accs, logs, saved, pending, arrays>>
    /\ error' = None
    /\ pc' \in {"file", "window", "phase"}
    /\ history' = history

C30_State ==
  /\ Listing("DB_empty") = <<>> /\ "DB_empty" \in BarrenDirs
  /\ Listing("DB_silent") # <<>> /\ "DB_silent" \in BarrenDirs
  /\ \A i \in DOMAIN history :
       IsBatch(history[i]) => PhaseDir(history[i].phase) \notin BarrenDirs
  /\ (InPass /\ path \in BarrenDirs) =>
       /\ pc \in {"file", "window"}
       /\ ENABLED (ReadAnchor \/ EndPhase \/ SkipWindow \/ EndFile)
  /\ error # None => ~path \in BarrenDirs
  /\ pc = "done" =>
       /\ Len(saved) = FLAGS.num_epochs
       /\ Len(Passes) = 2 * FLAGS.num_epochs + 1
       /\ (\A k \in 0 .. 2 : PhaseDir(k) \in BarrenDirs) =>
            /\ weight = InitWeight /\ bn = InitBN
            /\ step_train = 1 /\ step_valid = 1 /\ step_test = 1
            /\ acc_train = 0 /\ acc_valid = 0 /\ acc_test = 0

\* C30: a pass over a directory with no audio file, or with no window that
\* the gate accepts, runs no batch, changes no variable of the model, no
\* step counter and no accumulator and raises no error; the run goes on to
\* the next phase, and a run that ends has written every epoch's checkpoint.
C30_BarrenPass == [][C30_Step]_vars /\ []C30_State

C30_Witness ==
  /\ pc = "done"
  /\ FLAGS.train_dir = "DB_long"
  /\ FLAGS.valid_dir = "DB_empty"
  /\ FLAGS.test_dir = "DB_silent"
  /\ FLAGS.num_epochs = 2
  /\ Len(saved) = 2
  /\ Len(BatchesOf(0)) >= 2
  /\ BatchesOf(1) = <<>> /\ BatchesOf(2) = <<>>
  /\ step_valid = 1 /\ step_test = 1 /\ acc_valid = 0 /\ acc_test = 0
  /\ Len(files_read) = 2
====
